---- MODULE Spec2Model ----
(***************************************************************************)
(* A model of link-grammar/tokenize.c: the alternative buffer              *)
(* (add_alternative, issue_alternatives), the affix strippers, the         *)
(* morphological splitters, the spell expander and the sentence driver.    *)
(*                                                                         *)
(* Strings are sequences of code points; a code point is a one-character   *)
(* TLA+ string.  The NUL character and the NULL string pointer are kept    *)
(* apart from the empty string: a nullable pointer is a record             *)
(* [null, str].  Slot i of the C array sent->word is word[i+1] here.       *)
(***************************************************************************)
EXTENDS Integers, Sequences, FiniteSets, TLC

(***************************************************************************)
(* Bounds of the model.                                                    *)
(***************************************************************************)
\* Buffer specification: most add_alternative calls of one behaviour.
MaxAdds == 3
\* Sentence specification: most pieces (tokens, separators) of an input.
MaxPieces == 3

(***************************************************************************)
(* Program constants.                                                      *)
(***************************************************************************)
MAX_STRIP == 10
HEB_PRENUM_MAX == 5
MAX_NUM_SPELL_GUESSES == 60
\* MAX_WORD is set in a header outside tokenize.c; every string of the
\* model is shorter, as real words are.
MAX_WORD == 60

MIN(a, b) == IF a < b THEN a ELSE b

(***************************************************************************)
(* Code points and their classes (iswupper, iswdigit, iswalpha, towlower). *)
(***************************************************************************)
UpperChars == {"A", "B", "D", "H", "S"}
LowerChars ==
  {"a", "b", "c", "d", "e", "f", "g", "h", "i", "j", "k", "l", "m",
   "n", "o", "p", "q", "r", "s", "t", "u", "v", "w", "x", "y", "z"}
\* Hebrew letters (two bytes each in UTF-8).
VAV == "vav"
HebrewChars == {VAV, "bet", "he", "kaf", "lamed", "mem", "nun", "shin"}
DigitChars == {"1", "2", "6", "8"}
AlphaChars == UpperChars \cup LowerChars \cup HebrewChars

towlower(c) ==
  CASE c = "A" -> "a"
    [] c = "B" -> "b"
    [] c = "D" -> "d"
    [] c = "H" -> "h"
    [] c = "S" -> "s"
    [] OTHER -> c

is_utf8_upper(s) == s # <<>> /\ s[1] \in UpperChars
is_utf8_digit(s) == s # <<>> /\ s[1] \in DigitChars
is_utf8_alpha(s) == s # <<>> /\ s[1] \in AlphaChars

\* downcase_utf8_str: the lower-cased form, cut to usize.
downcase_utf8_str(from, usize) ==
  [i \in 1..MIN(Len(from), usize) |-> towlower(from[i])]

\* The first n code points of s (strncpy followed by a terminating NUL).
Take(s, n) == SubSeq(s, 1, MIN(Len(s), n))
\* s without its first n code points (pointer arithmetic s + n).
Drop(s, n) == SubSeq(s, n + 1, Len(s))
\* strncmp(s, t, strlen(t)) == 0
StartsWith(s, t) == Len(s) >= Len(t) /\ SubSeq(s, 1, Len(t)) = t
\* strncmp(send - strlen(t), t, strlen(t)) == 0, send the end of s
EndsWith(s, t) == Len(s) >= Len(t) /\ SubSeq(s, Len(s) - Len(t) + 1, Len(s)) = t

(***************************************************************************)
(* Nullable string pointers.                                               *)
(***************************************************************************)
NULL == [null |-> TRUE, str |-> <<>>]
Ptr(s) == [null |-> FALSE, str |-> s]

(***************************************************************************)
(* Distinguished tokens, configured by the dictionary headers.             *)
(***************************************************************************)
EMPTY_WORD_MARK == <<"EMPTY-WORD">>
LEFT_WALL_WORD == <<"LEFT-WALL">>
RIGHT_WALL_WORD == <<"RIGHT-WALL">>
SPELL_TAG == <<"[", "~", "]">>
REGEX_TAG == <<"[", "!", "]">>

(***************************************************************************)
(* State.                                                                  *)
(*   dict    the dictionary, its affix table, the oracles and the options  *)
(*           (read-only during tokenization)                               *)
(*   sent    the Sentence: word[], length, t_start, t_count, post_quote[]  *)
(*   input   sent->orig_sentence                                           *)
(*   pos     offset of word_start in input                                 *)
(*   pc      position of the sentence driver                               *)
(* History variables, written by no code, read by the properties only:     *)
(*   staged  the formatted decompositions accepted into the open group     *)
(*   groups  the committed groups: start, count, decompositions, raw word  *)
(*   nadds   number of add_alternative calls made so far                   *)
(*   last    what the last separate_word call was given and stripped       *)
(***************************************************************************)
VARIABLES dict, sent, input, pos, pc, staged, groups, nadds, last

vars == <<dict, sent, input, pos, pc, staged, groups, nadds, last>>

\* post_quote[] entries: a bool once assigned, indeterminate after realloc.
UNINIT == "uninit"
PQ(b) == IF b THEN "true" ELSE "false"

\* NewWord, leaving unsplit_word as the allocator returned it.
NewWord_unsplit_set(alt) ==
  [x |-> <<>>, alternatives |-> alt, unsplit_word |-> Ptr(<<>>), firstupper |-> FALSE]

\* A Word as add_alternative allocates it.
NewWord(alt) ==
  [x |-> <<>>, alternatives |-> alt, unsplit_word |-> NULL, firstupper |-> FALSE]

\* The Sentence when separate_sentence starts filling it.
EmptySentence ==
  [word |-> <<>>, length |-> 0, t_start |-> 0, t_count |-> 0, post_quote |-> <<>>,
   ub |-> FALSE, null_string |-> FALSE]

test_enabled(d, feature) == feature \in d.tests

(***************************************************************************)
(* add_alternative                                                         *)
(***************************************************************************)
\* format_affix, marking every suffix.
format_affix_marks_suffixes(d, at, affix) ==
  CASE at = "PREFIX" -> Take(affix, MAX_WORD) \o d.infix_mark
    [] at = "STEM" -> Take(affix, MAX_WORD)
    [] at = "SUFFIX" -> Take(d.infix_mark \o affix, MIN(Len(affix) + 1, MAX_WORD))

\* The switch (at): the string appended for one affix of type at.
format_affix(d, at, affix) ==
  CASE at = "PREFIX" -> Take(affix, MAX_WORD) \o d.infix_mark
    [] at = "STEM" -> Take(affix, MAX_WORD)
    [] at = "SUFFIX" ->
         IF \/ (affix # <<>> /\ ~is_utf8_alpha(affix))
            \/ d.infix_mark = <<>>
            \/ test_enabled(d, "no-suffixes")
         THEN Take(affix, MAX_WORD)
         ELSE Take(d.infix_mark \o affix, MIN(Len(affix) + 1, MAX_WORD))

\* affixlist[] and numlist[] in the order the loops visit them.
affixlist(prefix, stem, suffix) ==
  [i \in 1..Len(prefix) |-> [at |-> "PREFIX", str |-> prefix[i]]]
    \o [i \in 1..Len(stem) |-> [at |-> "STEM", str |-> stem[i]]]
    \o [i \in 1..Len(suffix) |-> [at |-> "SUFFIX", str |-> suffix[i]]]

\* balance_new_word, forgetting to pre-fill the new word.
balance_new_word_unfilled(t_count, numalt) == <<>>

\* The alternatives of a word added to a group that holds numalt earlier
\* decompositions (BALANCING at the added new word).
balance_new_word(t_count, numalt) ==
  IF t_count > 1 THEN [i \in 1..numalt |-> EMPTY_WORD_MARK] ELSE <<>>

RECURSIVE add_affixes(_, _, _, _, _)
\* The body of the nested for loops from affix index ai on; t_count is the
\* local copy of sent->t_count.
add_affixes(d, s, affixes, ai, t_count) ==
  IF ai = Len(affixes)
  THEN [sent |-> s, t_count |-> t_count, ai |-> ai]
  ELSE
    LET t_start == s.t_start
        grow == (ai = t_count)
        len == t_start + t_count
        t_count1 == IF grow THEN t_count + 1 ELSE t_count
        numalt == Len(s.word[t_start + 1].alternatives) - 1
        s1 == IF grow
              THEN [s EXCEPT !.word =
                      Append(SubSeq(s.word, 1, len),
                             NewWord(balance_new_word(t_count1, numalt)))]
              ELSE s
        buff == format_affix(d, affixes[ai + 1].at, affixes[ai + 1].str)
        s2 == IF is_utf8_upper(buff)
              THEN [s1 EXCEPT !.word[t_start + 1].firstupper = TRUE]
              ELSE s1
        s3 == [s2 EXCEPT !.word[t_start + ai + 1].alternatives = Append(@, buff)]
    IN add_affixes(d, s3, affixes, ai + 1, t_count1)

\* balance_rest, putting the empty alternative first instead of last.
balance_rest_front(s, from, to) ==
  [s EXCEPT !.word = [i \in 1..Len(s.word) |->
     IF i - 1 >= from /\ i - 1 < to
     THEN [s.word[i] EXCEPT !.alternatives = <<EMPTY_WORD_MARK>> \o @]
     ELSE s.word[i]]]

\* BALANCING: add an empty alternative to the rest of the words.
balance_rest(s, from, to) ==
  [s EXCEPT !.word = [i \in 1..Len(s.word) |->
     IF i - 1 >= from /\ i - 1 < to
     THEN [s.word[i] EXCEPT !.alternatives = Append(@, EMPTY_WORD_MARK)]
     ELSE s.word[i]]]

\* The test that makes add_alternative return before it adds anything.
empty_first_affix(affixes) == affixes # <<>> /\ affixes[1].str = <<>>

\* The statements after the loops, r being what the loops have left: the
\* balancing of the rest of the words and sent->t_count = t_count.
add_balance(r, t_start) ==
  [balance_rest(r.sent, t_start + r.ai, t_start + r.t_count)
     EXCEPT !.t_count = r.t_count]

add_alternative(d, s, prefix, stem, suffix) ==
  IF empty_first_affix(affixlist(prefix, stem, suffix))
  THEN s
  ELSE add_balance(add_affixes(d, s, affixlist(prefix, stem, suffix), 0, s.t_count),
                   s.t_start)

(***************************************************************************)
(* issue_alternatives                                                      *)
(***************************************************************************)
\* realloc(sent->post_quote, (t_start+1) * sizeof(bool)) and the assignment
\* of entry t_start.
set_post_quote(post_quote, t_start, quote_found) ==
  [i \in 1..(t_start + 1) |->
     IF i = t_start + 1 THEN PQ(quote_found)
     ELSE IF i <= Len(post_quote) THEN post_quote[i]
     ELSE UNINIT]

\* next_t_start, restarting at the first slot.
next_t_start_zero(length) == 0

\* Where the next token group starts once a group is committed.
next_t_start(length) == length

\* issue_alternatives without the test of t_count.
issue_alternatives_unguarded(s, word, quote_found) ==
  [sent |->
     [s EXCEPT !.post_quote = set_post_quote(s.post_quote, s.t_start, quote_found),
               !.length = s.length + s.t_count,
               !.t_start = next_t_start(s.length + s.t_count),
               !.t_count = 0],
   ret |-> s.t_count # 0]

issue_alternatives(s, word, quote_found) ==
  IF s.t_count = 0
  THEN [sent |-> s, ret |-> FALSE]
  ELSE [sent |->
          [s EXCEPT !.word[s.t_start + 1].unsplit_word = Ptr(word),
                    !.post_quote = set_post_quote(s.post_quote, s.t_start, quote_found),
                    !.length = s.length + s.t_count,
                    !.t_start = next_t_start(s.length + s.t_count),
                    !.t_count = 0],
        ret |-> TRUE]

issue_sentence_word_unquoted(d, s, str, quote_found) ==
  issue_alternatives(add_alternative(d, s, <<>>, <<str>>, <<>>), str, FALSE).sent

\* issue_sentence_word: add_alternative and issue_alternatives back to back.
issue_sentence_word(d, s, str, quote_found) ==
  issue_alternatives(add_alternative(d, s, <<>>, <<str>>, <<>>), str, quote_found).sent

(***************************************************************************)
(* The oracles: dictionary, regexes, character tables.                     *)
(***************************************************************************)
boolean_dictionary_lookup_or_regex(d, w) == w \in d.words \/ w \in d.regex

\* Literal lookup.
boolean_dictionary_lookup(d, w) == w \in d.words

\* The name of the first regex matching w, or NULL.
match_regex(d, w) == IF w \in d.regex THEN Ptr(d.regex_name) ELSE NULL

\* find_word_in_dict, which never finds a word.
find_word_in_dict_never(d, w) == FALSE

\* Literal lookup or regex match.
find_word_in_dict(d, w) ==
  boolean_dictionary_lookup(d, w) \/ ~match_regex(d, w).null

is_quote(d, c) == c \in d.QUOTES
is_bullet(d, c) == c \in d.BULLETS
is_bullet_str(d, str) == str # <<>> /\ is_bullet(d, str[1])
\* iswspace, and U+00A0.
SpaceChars == {" ", "nbsp"}
is_space(c) == c \in SpaceChars

\* A digit first, then digits, U+00A0, '.', ',' and ':' only.
is_number(s) ==
  /\ is_utf8_digit(s)
  /\ \A i \in 1..Len(s) : s[i] \in DigitChars \cup {"nbsp", ".", ",", ":"}

(***************************************************************************)
(* strip_left                                                              *)
(***************************************************************************)
\* The inner for loop: the index of the first LPUNC entry w starts with,
\* or l_strippable (0-based, as the C index i).
first_lpunc(d, w) ==
  LET hits == {i \in 1..Len(d.LPUNC) : StartsWith(w, d.LPUNC[i])}
  IN IF hits = {} THEN Len(d.LPUNC)
     ELSE (CHOOSE i \in hits : \A j \in hits : i <= j) - 1

RECURSIVE strip_left_loop(_, _, _, _, _)
\* The do-while loop; issued collects the entries issued, for the history.
strip_left_loop(d, s, w, quote_found, issued) ==
  LET i == first_lpunc(d, w)
  IN IF i = Len(d.LPUNC)
     THEN [sent |-> s, w |-> w, issued |-> issued]
     ELSE CHOOSE r \in
            {strip_left_loop(d, s1, Drop(w, Len(d.LPUNC[i + 1])), quote_found,
                             Append(issued, d.LPUNC[i + 1])) :
               s1 \in {issue_sentence_word(d, s, d.LPUNC[i + 1], quote_found)}} : TRUE

strip_left(d, s, w, quote_found) ==
  IF ~d.affix_table
  THEN [sent |-> s, w |-> w, issued |-> <<>>]
  ELSE strip_left_loop(d, s, w, quote_found, <<>>)

(***************************************************************************)
(* strip_right                                                             *)
(***************************************************************************)
\* strip_entry, scanning the UNITS table before the RPUNC table.
strip_entry_units_first(d, i) ==
  IF i < Len(d.UNITS) THEN d.UNITS[i + 1] ELSE d.RPUNC[i - Len(d.UNITS) + 1]

\* Entry i (0-based) of the RPUNC table followed by the UNITS table.
strip_entry(d, i) ==
  IF i < Len(d.RPUNC) THEN d.RPUNC[i + 1] ELSE d.UNITS[i - Len(d.RPUNC) + 1]

\* unit_allowed, without the two checks.
unit_allowed_always(starts_with_number, previous_is_unit) == TRUE

\* Whether the scan may go on into the UNITS entries.
unit_allowed(starts_with_number, previous_is_unit) ==
  starts_with_number /\ ~previous_is_unit

\* The inner for loop over RPUNC then UNITS: the value of i when it ends.
\* The first matching entry, where UNITS entries are reached only if
\* unit_allowed; when nothing matches, r_strippable if the scan stopped at
\* the first unit for want of a leading digit, r_strippable+u_strippable
\* otherwise.
strip_scan(d, word, starts_with_number, previous_is_unit) ==
  LET r == Len(d.RPUNC)
      u == Len(d.UNITS)
      reach == IF unit_allowed(starts_with_number, previous_is_unit)
               THEN r + u ELSE r
      hits == {i \in 0..(reach - 1) : EndsWith(word, strip_entry(d, i))}
  IN IF hits # {} THEN CHOOSE i \in hits : \A j \in hits : i <= j
     ELSE IF starts_with_number THEN r + u
     ELSE r

RECURSIVE strip_right_loop(_, _, _)
\* The for loop over nrs.  st holds the locals: nrs, temp_wend (a length of
\* w), wend, n_r_stripped, previous_is_unit, r_stripped (with the table index
\* each entry was found at), word_is_in_dict.
strip_right_loop(d, w, st) ==
  IF st.nrs >= MAX_STRIP THEN st
  ELSE
    LET word == Take(SubSeq(w, 1, st.temp_wend), MAX_WORD)
        starts_with_number == is_utf8_digit(w)
        r == Len(d.RPUNC)
        u == Len(d.UNITS)
        i == strip_scan(d, SubSeq(w, 1, st.temp_wend), starts_with_number,
                        st.previous_is_unit)
    IN IF st.temp_wend = 0 THEN st
       ELSE IF find_word_in_dict(d, word)
       THEN [st EXCEPT !.word_is_in_dict = TRUE]
       ELSE IF i = r + u THEN st
       ELSE IF i >= r /\ ~starts_with_number THEN st
       ELSE
         LET t == strip_entry(d, i)
             st1 == IF i < r
                    THEN [st EXCEPT !.previous_is_unit = FALSE,
                                    !.n_r_stripped = st.nrs,
                                    !.wend = st.temp_wend]
                    ELSE [st EXCEPT !.previous_is_unit = TRUE]
         IN strip_right_loop(d, w,
              [st1 EXCEPT !.r_stripped = Append(@, t),
                          !.r_index = Append(@, i),
                          !.temp_wend = st.temp_wend - Len(t),
                          !.nrs = st.nrs + 1])

\* The statements after the for loop: the units stripped last are kept
\* only if the word starts with a number.
strip_right_end(w, st) ==
  IF ~st.previous_is_unit \/ is_utf8_digit(w)
  THEN [st EXCEPT !.n_r_stripped = st.nrs, !.wend = st.temp_wend]
  ELSE st

\* strip_right of the string w (its end is wend).  n_r_stripped and
\* word_is_in_dict are the caller's variables, passed by reference.
strip_right(d, w, n_r_stripped, word_is_in_dict) ==
  LET st0 == [nrs |-> 0, temp_wend |-> Len(w), wend |-> Len(w),
              n_r_stripped |-> n_r_stripped, previous_is_unit |-> FALSE,
              r_stripped |-> <<>>, r_index |-> <<>>,
              word_is_in_dict |-> word_is_in_dict]
  IN IF ~d.affix_table THEN st0
     ELSE strip_right_end(w, strip_right_loop(d, w, st0))

(***************************************************************************)
(* Undefined behaviour: once the program has read through a NULL string    *)
(* or copied a negative number of bytes, sent.ub is set and nothing more   *)
(* is known of the state.                                                  *)
(***************************************************************************)
undefined(s) == [s EXCEPT !.ub = TRUE]

\* add_alternative called with a count of one for a list whose string is
\* NULL: the string is read through at the switch on the affix type.
null_string_counted(s) == [undefined(s) EXCEPT !.null_string = TRUE]

\* x |= f(...), where f returns the sentence it changed together with its
\* boolean and b is the value x had.
OrRet(r, b) == [sent |-> r.sent, ret |-> r.ret \/ b]

(***************************************************************************)
(* add_alternative_with_subscr                                             *)
(***************************************************************************)
\* The list add_alternative gets for a nullable prefix or suffix passed as
\* ((p ? 1 : 0), &p).
OptList(p) == IF p.null THEN <<>> ELSE <<p.str>>

RECURSIVE subscr_loop(_, _, _, _, _, _, _)
\* The for loop over the STEMSUBSCR entries from si on.
subscr_loop(d, s, prefix, word, suffix, si, word_is_in_dict) ==
  IF si = Len(d.STEMSUBSCR) \/ s.ub
  THEN [sent |-> s, ret |-> word_is_in_dict]
  ELSE IF boolean_dictionary_lookup(d,
            Take(word, MAX_WORD) \o Take(d.STEMSUBSCR[si + 1], MAX_WORD - 1))
  THEN subscr_loop(d,
         IF suffix.null
         THEN null_string_counted(s)  \* suffnum is 1 and *suffix is NULL
         ELSE add_alternative(d, s, OptList(prefix),
                <<Take(word, MAX_WORD) \o Take(d.STEMSUBSCR[si + 1], MAX_WORD - 1)>>,
                <<suffix.str>>),
         prefix, word, suffix, si + 1, TRUE)
  ELSE subscr_loop(d, s, prefix, word, suffix, si + 1, word_is_in_dict)

add_alternative_with_subscr_reported(d, s, prefix, word, suffix) ==
  IF Len(d.STEMSUBSCR) = 0
  THEN [sent |-> add_alternative(d, s, OptList(prefix), <<word>>, OptList(suffix)),
        ret |-> TRUE]
  ELSE subscr_loop(d, s, prefix, word, suffix, 0, FALSE)

add_alternative_with_subscr(d, s, prefix, word, suffix) ==
  IF Len(d.STEMSUBSCR) = 0
  THEN [sent |-> add_alternative(d, s, OptList(prefix), <<word>>, OptList(suffix)),
        ret |-> (d.infix_mark # <<>>)]
  ELSE subscr_loop(d, s, prefix, word, suffix, 0, FALSE)

(***************************************************************************)
(* suffix_split                                                            *)
(***************************************************************************)
RECURSIVE prefix_loop(_, _, _, _, _, _)
\* The for loop over the PRE entries from j on; acc holds the sentence and
\* word_can_split, len is the length of the current suffix and suffix the
\* pointer *suffix.
prefix_loop(d, acc, w, len, suffix, j) ==
  IF j = Len(d.PRE) \/ acc.sent.ub
  THEN acc
  ELSE
    LET pre == d.PRE[j + 1]
        sz == MIN((Len(w) - len) - Len(pre), MAX_WORD)
        newword == SubSeq(w, Len(pre) + 1, Len(pre) + sz)
    IN IF ~StartsWith(w, pre)
       THEN prefix_loop(d, acc, w, len, suffix, j + 1)
       ELSE IF sz < 0
       THEN [acc EXCEPT !.sent = undefined(@)]  \* strncpy of sz < 0
       ELSE IF boolean_dictionary_lookup(d, newword)
       THEN CHOOSE r \in
              {prefix_loop(d, acc1, w, len, suffix, j + 1) :
                 acc1 \in {OrRet(add_alternative_with_subscr(d, acc.sent, Ptr(pre),
                                                            newword, suffix),
                                 acc.ret)}} : TRUE
       ELSE prefix_loop(d, acc, w, len, suffix, j + 1)

RECURSIVE suffix_loop(_, _, _, _)
\* The for loop over the SUF entries from i on, i = s_strippable being the
\* final pass for the no-suffix case; acc holds the sentence and
\* word_can_split.
suffix_loop(d, acc, w, i) ==
  IF i > Len(d.SUF) \/ acc.sent.ub
  THEN acc
  ELSE IF i = Len(d.SUF)
  THEN CHOOSE r \in
         {suffix_loop(d, acc1, w, i + 1) :
            acc1 \in {prefix_loop(d, acc, w, 0, NULL, 0)}} : TRUE
  ELSE
    LET suffix == d.SUF[i + 1]
        len == Len(suffix)
        newword == Take(SubSeq(w, 1, Len(w) - len), MAX_WORD)
    IN IF Len(w) < len
       THEN suffix_loop(d, acc, w, i + 1)
       ELSE CHOOSE r \in
              {suffix_loop(d, acc2, w, i + 1) :
                 acc2 \in {prefix_loop(d, acc1, w, len, Ptr(suffix), 0) :
                   acc1 \in {IF EndsWith(w, suffix) /\ find_word_in_dict(d, newword)
                             THEN OrRet(add_alternative_with_subscr(
                                          d, acc.sent, NULL, newword, Ptr(suffix)),
                                        acc.ret)
                             ELSE acc}}} : TRUE

suffix_split(d, s, w) ==
  IF ~d.affix_table
  THEN [sent |-> s, ret |-> FALSE]
  ELSE suffix_loop(d, [sent |-> s, ret |-> FALSE], w, 0)

(***************************************************************************)
(* mprefix_split                                                           *)
(***************************************************************************)
\* HEB_CHAREQ(s, VAV): the first two bytes of s are the letter vav.
HEB_CHAREQ_VAV(s) == s # <<>> /\ s[1] = VAV

mprefix_continue_unbounded(pre, split_prefix_i) == Len(pre) # 0

\* The condition of the do-while loop after a pass that peeled pre and set
\* w = newword: sz > 0 and i < mp_strippable hold there, newword != w + plen
\* says that pre is not empty.
mprefix_continue(pre, split_prefix_i) ==
  Len(pre) # 0 /\ split_prefix_i < HEB_PRENUM_MAX

RECURSIVE mprefix_loop(_, _, _, _, _, _)
\* The do-while loop: w is the rest of the word, split_prefix the prefixes
\* peeled so far, pseen the set of MPRE indices seen.
mprefix_loop(d, s, w, split_prefix, pseen, word_is_in_dict) ==
  LET hits == {i \in 1..Len(d.MPRE) :
                 /\ i \notin pseen
                 /\ ~(Len(split_prefix) > 0 /\ HEB_CHAREQ_VAV(d.MPRE[i])
                        /\ HEB_CHAREQ_VAV(w))
                 /\ StartsWith(w, d.MPRE[i])}
  IN IF hits = {}
     THEN [sent |-> s, ret |-> word_is_in_dict]
     ELSE
       LET i == CHOOSE k \in hits : \A j \in hits : k <= j
           pre == d.MPRE[i]
           sz == Len(w) - Len(pre)
           rest == Drop(w, Len(pre))
           vav_next == ~HEB_CHAREQ_VAV(pre) /\ HEB_CHAREQ_VAV(rest)
           \* newword[HEB_UTF8_BYTES+1]: a byte of the second letter
           newword == IF vav_next /\ Len(rest) >= 2 THEN Drop(rest, 1) ELSE rest
           prefixes == Append(split_prefix, pre)
           found == find_word_in_dict(d, newword)
       IN IF vav_next /\ ~HEB_CHAREQ_VAV(Drop(rest, 1))
          THEN [sent |-> s, ret |-> word_is_in_dict]
          ELSE IF sz = 0
          THEN [sent |-> add_alternative(d, s, prefixes, <<>>, <<>>), ret |-> TRUE]
          ELSE CHOOSE r \in
                 {IF mprefix_continue(pre, Len(prefixes))
                  THEN mprefix_loop(d, s1, newword, prefixes, pseen \cup {i},
                                    word_is_in_dict \/ found)
                  ELSE [sent |-> s1, ret |-> word_is_in_dict \/ found] :
                    s1 \in {IF found
                            THEN add_alternative(d, s, prefixes, <<newword>>, <<>>)
                            ELSE s}} : TRUE

mprefix_split(d, s, word) ==
  IF ~d.affix_table \/ Len(d.MPRE) = 0
  THEN [sent |-> s, ret |-> FALSE]
  ELSE mprefix_loop(d, s, word, <<>>, {}, FALSE)

(***************************************************************************)
(* is_capitalizable                                                        *)
(***************************************************************************)
is_capitalizable(d, s, curr_word) ==
  LET first_word == IF d.left_wall_defined THEN 1 ELSE 0
      prev == s.word[curr_word].alternatives[1]
  IN \/ curr_word = first_word
     \/ /\ curr_word > 0
        /\ \/ prev = <<":">>
           \/ prev = <<".">>
           \/ is_bullet_str(d, prev)
     \/ /\ curr_word < s.length
        /\ s.post_quote[curr_word + 1] = PQ(TRUE)

(***************************************************************************)
(* guess_misspelled_word                                                   *)
(***************************************************************************)
spellcheck_test(d, word) == word \in d.spell_words
spellcheck_suggest(d, word) ==
  IF word \in DOMAIN d.suggest THEN d.suggest[word] ELSE <<>>

RECURSIVE SplitAtSpaces(_)
\* The pieces strchr(wp, ' ') cuts a suggestion into.
SplitAtSpaces(str) ==
  LET sps == {i \in 1..Len(str) : str[i] = " "}
  IN IF sps = {} THEN <<str>>
     ELSE LET sp == CHOOSE i \in sps : \A j \in sps : i <= j
          IN <<SubSeq(str, 1, sp - 1)>> \o SplitAtSpaces(Drop(str, sp))

\* snprintf(str, MAX_WORD, "%.*s[~]", MAX_WORD-3, s), and the same with [!]
Tagged(str, tag) == Take(Take(str, MAX_WORD - 3) \o tag, MAX_WORD - 1)

\* One pass of the for loop over the suggestions, for alternates[j]; acc
\* holds the sentence, num_guesses and whether the loop has been left by its
\* break.
guess_counted(s, num_guesses) ==
  [sent |-> s, num_guesses |-> num_guesses,
   broke |-> num_guesses > MAX_NUM_SPELL_GUESSES]

guess_step(d, acc, alternates, j) ==
  IF acc.broke
  THEN acc
  ELSE IF \E i \in 1..Len(alternates[j + 1]) : alternates[j + 1][i] = " "
  THEN guess_counted(add_alternative(d, acc.sent, <<>>,
                                     SplitAtSpaces(alternates[j + 1]), <<>>),
                     acc.num_guesses + 1)
  ELSE IF boolean_dictionary_lookup(d, alternates[j + 1])
  THEN guess_counted(add_alternative(d, acc.sent, <<>>,
                                     <<Tagged(alternates[j + 1], SPELL_TAG)>>, <<>>),
                     acc.num_guesses + 1)
  ELSE acc

RECURSIVE guess_range(_, _, _, _, _)
\* The passes j = lo .. hi-1 of the for loop, one after the other; the
\* range is halved so that the evaluation does not nest once per pass.
guess_range(d, acc, alternates, lo, hi) ==
  IF lo >= hi THEN acc
  ELSE IF hi = lo + 1 THEN guess_step(d, acc, alternates, lo)
  ELSE CHOOSE r \in
         {guess_range(d, acc1, alternates, (lo + hi) \div 2, hi) :
            acc1 \in {guess_range(d, acc, alternates, lo, (lo + hi) \div 2)}} : TRUE

guess_commit_unissued(acc, word, quote_found) ==
  [sent |-> acc.sent, ret |-> acc.num_guesses > 0]

\* After the loop: the commit of the guesses when there are any.
guess_commit(acc, word, quote_found) ==
  IF acc.num_guesses > 0
  THEN [sent |-> issue_alternatives(acc.sent, word, quote_found).sent, ret |-> TRUE]
  ELSE [sent |-> acc.sent, ret |-> FALSE]

\* The for loop over the suggestions and the commit after it.
guess_loop(d, s, word, quote_found, alternates) ==
  CHOOSE r \in
    {guess_commit(acc, word, quote_found) :
       acc \in {guess_range(d, guess_counted(s, 0), alternates, 0,
                            Len(alternates))}} : TRUE

\* Neither early return is taken: the word is no number and the spell
\* checker does not know it, so that the suggestions are asked for.
spell_suggest_reached(d, word) == ~is_number(word) /\ ~spellcheck_test(d, word)

guess_misspelled_word(d, s, word, quote_found) ==
  IF ~spell_suggest_reached(d, word)
  THEN [sent |-> s, ret |-> FALSE]
  ELSE guess_loop(d, s, word, quote_found, spellcheck_suggest(d, word))

(***************************************************************************)
(* separate_word                                                           *)
(***************************************************************************)
RECURSIVE issue_r_stripped(_, _, _, _)
\* The final for loop: r_stripped[i], i = n-1 down to 0, each as a word.
issue_r_stripped(d, s, r_stripped, n) ==
  IF n = 0 THEN s
  ELSE CHOOSE r \in {issue_r_stripped(d, s1, r_stripped, n - 1) :
                      s1 \in {issue_sentence_word(d, s, r_stripped[n], FALSE)}} : TRUE

\* word_can_split |= suffix_split(sent, downcase) for a capitalized word in
\* a capitalizable position; r holds the sentence and word_can_split.
split_downcase(d, r, downcase, try_downcase) ==
  IF try_downcase THEN OrRet(suffix_split(d, r.sent, downcase), r.ret) ELSE r

\* word_can_split |= mprefix_split(sent, word)
split_mprefix(d, r, word) == OrRet(mprefix_split(d, r.sent, word), r.ret)

\* The three splitters in the order separate_word tries them.
core_splits(d, s1, w, word, downcase, try_downcase) ==
  split_mprefix(d, split_downcase(d, suffix_split(d, s1, w), downcase, try_downcase),
                word)

regex_candidate_tagged(d, word, downcase) ==
  Tagged(IF downcase # <<>> THEN downcase ELSE word, REGEX_TAG)

\* wp in the regex step: the word, or under the "parallels-regex" test
\* the lower-cased word (when there is one) followed by the [!] tag.
regex_candidate(d, word, downcase) ==
  IF test_enabled(d, "parallels-regex")
  THEN Tagged(IF downcase # <<>> THEN downcase ELSE word, REGEX_TAG)
  ELSE word

\* The capitalized-word and regex alternatives; sp holds the sentence after
\* the splitters and word_can_split, in_dict2 is word_is_in_dict after the
\* MAX_STRIP test.
core_case(d, sp, word, downcase, upper, capq, in_dict2) ==
  LET add_uc == upper /\ ~sp.ret /\ ~match_regex(d, word).null
      s4 == IF add_uc THEN add_alternative(d, sp.sent, <<>>, <<word>>, <<>>)
            ELSE sp.sent
      add_lc == upper /\ capq /\ boolean_dictionary_lookup(d, downcase)
      s5 == IF add_lc THEN add_alternative(d, s4, <<>>, <<downcase>>, <<>>) ELSE s4
      in_dict3 == in_dict2 \/ add_lc \/ sp.ret
      try_regex == ~in_dict3 \/ test_enabled(d, "parallel-regex")
      wp == regex_candidate(d, word, downcase)
      add_regex == try_regex /\ ~match_regex(d, wp).null
  IN [sent |-> IF add_regex THEN add_alternative(d, s5, <<>>, <<wp>>, <<>>) ELSE s5,
      ret |-> in_dict3 \/ add_regex,
      in_dict |-> in_dict3,
      regex |-> add_regex]

\* if (!issued) issue_sentence_word(...), issue being what
\* issue_alternatives returned.
issue_unsplit(d, issue, word, quote_found) ==
  IF issue.ret THEN issue.sent
  ELSE issue_sentence_word(d, issue.sent, word, quote_found)

\* if (!issued) issued = issue_alternatives(...), guess being what the
\* spell guesser returned.
issue_guessed(d, guess, word, quote_found) ==
  IF guess.ret THEN guess.sent
  ELSE issue_unsplit(d, issue_alternatives(guess.sent, word, quote_found),
                     word, quote_found)

spell_guess_wanted_whatever_found(d, cs, word) ==
  /\ ~is_utf8_upper(word)
  /\ d.use_spell_guess
  /\ d.spell_checker

\* The test before guess_misspelled_word; cs holds word_is_in_dict.
spell_guess_wanted(d, cs, word) ==
  /\ ~cs.ret
  /\ ~is_utf8_upper(word)  \* is_proper_name
  /\ d.use_spell_guess
  /\ d.spell_checker

\* What the steps before the commit found, for the history variable:
\* word_is_in_dict as the regex step saw it, whether the regex step added
\* an alternative, and whether the spell checker was asked for suggestions.
core_flags(d, cs, word) ==
  [word_is_in_dict |-> cs.in_dict,
   regex |-> cs.regex,
   spell |-> spell_guess_wanted(d, cs, word) /\ spell_suggest_reached(d, word)]

\* The spell guesses and the commit of the group; cs holds the sentence and
\* word_is_in_dict.
core_issue(d, cs, word, quote_found) ==
  IF spell_guess_wanted(d, cs, word)
  THEN issue_guessed(d, guess_misspelled_word(d, cs.sent, word, quote_found),
                     word, quote_found)
  ELSE issue_guessed(d, [sent |-> cs.sent, ret |-> FALSE], word, quote_found)

\* core_r_stripped, issuing the pieces in the order they were stripped.
core_r_stripped_forward(d, s7, sr) ==
  [sent |-> issue_r_stripped(d, s7,
                             [i \in 1..sr.n_r_stripped |->
                                sr.r_stripped[sr.n_r_stripped + 1 - i]],
                             IF sr.n_r_stripped >= MAX_STRIP THEN 0
                             ELSE sr.n_r_stripped),
   core_end |-> s7.length]

\* The stripped pieces issued after the word, none of them when MAX_STRIP
\* was reached (n_r_stripped = 0).
core_r_stripped(d, s7, sr) ==
  [sent |-> issue_r_stripped(d, s7, sr.r_stripped,
                             IF sr.n_r_stripped >= MAX_STRIP THEN 0
                             ELSE sr.n_r_stripped),
   core_end |-> s7.length]

\* What separate_word does with the word left after the strips: w is the
\* string between w and wend, sr what strip_right returned.
separate_core(d, s0, w, sr, quote_found) ==
  LET word == Take(w, MAX_WORD)
      in_dict1 == boolean_dictionary_lookup(d, word)
      capq == is_capitalizable(d, s0, s0.length) \/ quote_found
      upper == is_utf8_upper(word)
      downcase == IF upper /\ capq THEN downcase_utf8_str(word, MAX_WORD) ELSE <<>>
  IN CHOOSE r \in
       UNION {{core_r_stripped(d, s7, sr) @@ core_flags(d, cs, word) :
                 s7 \in {core_issue(d, cs, word, quote_found)}} :
            cs \in {core_case(d, sp, word, downcase, upper, capq,
                              in_dict1 \/ sr.n_r_stripped >= MAX_STRIP) :
              sp \in {core_splits(d,
                        IF in_dict1
                        THEN add_alternative(d, s0, <<>>, <<word>>, <<>>)
                        ELSE s0,
                        w, word, downcase, capq /\ upper)}}} : TRUE

\* What separate_word has done, for the history variable: c is the result
\* of separate_core.
with_info(c, info) ==
  [sent |-> c.sent,
   info |-> info @@ [core_end |-> c.core_end, len1 |-> c.sent.length,
                     word_is_in_dict |-> c.word_is_in_dict, regex |-> c.regex,
                     spell |-> c.spell]]

\* separate_word once both ends are stripped: sl is what strip_left and sr
\* what strip_right returned.
separate_stripped(d, s, token, sl, sr, quote_found) ==
  with_info(separate_core(d, sl.sent, SubSeq(sl.w, 1, sr.wend), sr, quote_found),
            [given |-> token, quote_found |-> quote_found, len0 |-> s.length,
             l_stripped |-> sl.issued, w |-> sl.w,
             core |-> SubSeq(sl.w, 1, sr.wend), before |-> sl.sent,
             r_stripped |-> sr.r_stripped, r_index |-> sr.r_index,
             n_r_stripped |-> sr.n_r_stripped])

\* separate_word of a token that is not in the dictionary as it stands: sl
\* is what strip_left returned.
separate_unknown(d, s, token, sl, quote_found) ==
  IF sl.w = <<>>
  THEN with_info([sent |-> sl.sent, core_end |-> sl.sent.length,
                  word_is_in_dict |-> FALSE, regex |-> FALSE, spell |-> FALSE],
                 [given |-> token, quote_found |-> quote_found, len0 |-> s.length,
                  l_stripped |-> sl.issued, w |-> sl.w, core |-> <<>>,
                  before |-> sl.sent,
                  r_stripped |-> <<>>, r_index |-> <<>>, n_r_stripped |-> 0])
  ELSE CHOOSE r \in
         {separate_stripped(d, s, token, sl, sr, quote_found) :
            sr \in {strip_right(d, sl.w, 0, FALSE)}} : TRUE

\* separate_word(sent, opts, w, wend, quote_found) with token the string
\* between w and wend.  Besides the sentence, the result tells what was
\* stripped, for the history variable.
separate_word(d, s, token, quote_found) ==
  IF find_word_in_dict(d, Take(token, MAX_WORD))
  THEN separate_stripped(d, s, token,
         [sent |-> s, w |-> token, issued |-> <<>>],
         [wend |-> Len(token), n_r_stripped |-> 0, r_stripped |-> <<>>,
          r_index |-> <<>>, word_is_in_dict |-> TRUE],
         quote_found)
  ELSE CHOOSE r \in
         {separate_unknown(d, s, token, sl, quote_found) :
            sl \in {strip_left(d, s, token, quote_found)}} : TRUE

(***************************************************************************)
(* build_sentence_expressions                                              *)
(***************************************************************************)
UNKNOWN_WORD == <<"UNKNOWN-WORD">>
SUBSCRIPT_MARK == "."

\* word_contains(dict, str, ENTITY_MARKER) and the same with
\* COMMON_ENTITY_MARKER.
is_common_entity(d, str) == str \in d.common_entity
\* is_entity, finding no entity.
is_entity_never(d, str) == FALSE
is_entity(d, str) ==
  \/ str \in d.entity
  \/ /\ ~match_regex(d, str).null
     /\ match_regex(d, str).str \in d.entity

\* strstr(s, mark): the offset of the first mark in s, Len(s) when there is
\* none.
strstr(s, mark) ==
  LET hits == {i \in 0..(Len(s) - Len(mark)) : SubSeq(s, i + 1, i + Len(mark)) = mark}
  IN IF hits = {} THEN Len(s) ELSE CHOOSE i \in hits : \A j \in hits : i <= j

\* strrchr(str, SUBSCRIPT_MARK): the offset of the last subscript mark,
\* Len(str) when there is none.
strrchr_subscript(str) ==
  LET hits == {i \in 0..(Len(str) - 1) : str[i + 1] = SUBSCRIPT_MARK}
  IN IF hits = {} THEN Len(str) ELSE CHOOSE i \in hits : \A j \in hits : j <= i

\* The X_node list of the dictionary entries of w, empty (NULL) when the
\* dictionary has none.
build_word_expressions(d, w) ==
  IF boolean_dictionary_lookup(d, w) THEN <<[string |-> w]>> ELSE <<>>

\* mark_x_node_words: the mark goes before the subscript of each node.
mark_x_node_words(we, mark) ==
  [k \in 1..Len(we) |->
     [string |-> Take(we[k].string, strrchr_subscript(we[k].string)) \o mark
                   \o Drop(we[k].string, strrchr_subscript(we[k].string))]]

\* mark_replace_x_node_words: word[<mark><word_type>] and the subscript the
\* node had.
mark_replace_x_node_words(we, word, mark, word_type) ==
  [k \in 1..Len(we) |->
     [string |-> word \o <<"[", mark>> \o word_type \o <<"]">>
                   \o Drop(we[k].string, strrchr_subscript(we[k].string))]]

build_regex_expressions(d, word_type, word) ==
  mark_replace_x_node_words(build_word_expressions(d, word_type), word, "!",
                            IF d.display_morphology THEN word_type ELSE <<>>)

\* The expressions of UNKNOWN_WORD under the name of s; the assertion fails
\* when the dictionary has no such entry.
handle_unknown_word(d, s) ==
  [we |-> mark_replace_x_node_words(build_word_expressions(d, UNKNOWN_WORD), s, "?", <<>>),
   asserted |-> build_word_expressions(d, UNKNOWN_WORD) = <<>>]

\* The three lookups for the alternative s and the assertion after them.
lookup_expressions(d, s) ==
  LET spell_mark == strstr(s, <<"[", "~">>)
      regex_mark == strstr(s, <<"[", "!">>)
      origword == Take(s, spell_mark)
      regex_it == Take(s, regex_mark)
      regex_name == match_regex(d, regex_it)
  IN IF regex_mark = Len(s) /\ boolean_dictionary_lookup(d, origword)
     THEN [we |-> IF spell_mark < Len(s)
                  THEN mark_x_node_words(build_word_expressions(d, origword),
                                         Drop(s, spell_mark))
                  ELSE build_word_expressions(d, origword),
           asserted |-> FALSE]
     ELSE IF ~regex_name.null /\ boolean_dictionary_lookup(d, regex_name.str)
     THEN [we |-> build_regex_expressions(d, regex_name.str, regex_it),
           asserted |-> FALSE]
     ELSE IF d.unknown_word_defined /\ d.use_unknown_word
     THEN handle_unknown_word(d, s)
     ELSE [we |-> <<>>, asserted |-> TRUE]

\* sent->post_quote[i] as is_capitalizable reads it for a word that is not
\* the first of its group: the entry was never written, or lies past the
\* end of the array, and G is the set of the words it reads as true for.
ReadPostQuote(s, G) ==
  [s EXCEPT !.post_quote =
     [k \in 1..s.length |->
        IF k <= Len(s.post_quote) /\ s.post_quote[k] # UNINIT THEN s.post_quote[k]
        ELSE PQ((k - 1) \in G)]]

\* The capitalization step for the alternative s of word i, we being the
\* expressions the lookups built: the lower-case expressions are added to
\* them, or take their place together with the alternative string.
capitalized_expressions(d, acc, G, i, ialt, s, we) ==
  IF /\ is_capitalizable(d, ReadPostQuote(acc.sent, G), i)
     /\ is_utf8_upper(s)
     /\ boolean_dictionary_lookup(d, downcase_utf8_str(s, MAX_WORD))
  THEN IF is_entity(d, s) \/ is_common_entity(d, downcase_utf8_str(s, MAX_WORD))
       THEN [acc EXCEPT !.sent.word[i + 1].x =
               @ \o we \o build_word_expressions(d, downcase_utf8_str(s, MAX_WORD))]
       ELSE [acc EXCEPT !.sent.word[i + 1].alternatives[ialt + 1] =
               downcase_utf8_str(s, MAX_WORD),
                        !.sent.word[i + 1].x =
               @ \o build_word_expressions(d, downcase_utf8_str(s, MAX_WORD))]
  ELSE [acc EXCEPT !.sent.word[i + 1].x = @ \o we]

\* The body of the inner loop for alternative ialt of word i.
build_alternative(d, acc, G, i, ialt, lk) ==
  IF lk.asserted THEN [acc EXCEPT !.asserted = TRUE]
  ELSE capitalized_expressions(d, acc, G, i, ialt,
                               acc.sent.word[i + 1].alternatives[ialt + 1], lk.we)

RECURSIVE build_alternatives(_, _, _, _, _, _)
\* The inner loop for the alternatives ialt = lo .. hi-1 of word i, one
\* after the other; it stops where the assertion fails.  The range is
\* halved so that the evaluation does not nest once per alternative.
build_alternatives(d, acc, G, i, lo, hi) ==
  IF acc.asserted \/ lo >= hi THEN acc
  ELSE IF hi = lo + 1
  THEN build_alternative(d, acc, G, i, lo,
         lookup_expressions(d, acc.sent.word[i + 1].alternatives[lo + 1]))
  ELSE CHOOSE r \in
         {build_alternatives(d, a1, G, i, (lo + hi) \div 2, hi) :
            a1 \in {build_alternatives(d, acc, G, i, lo, (lo + hi) \div 2)}} : TRUE

RECURSIVE build_loop(_, _, _, _)
\* The outer loop from word i on; it stops where the assertion fails.
build_loop(d, acc, G, i) ==
  IF acc.asserted \/ i = acc.sent.length THEN acc
  ELSE CHOOSE r \in
         {build_loop(d, a1, G, i + 1) :
            a1 \in {build_alternatives(d, acc, G, i, 0,
                                       Len(acc.sent.word[i + 1].alternatives))}} : TRUE

build_sentence_expressions(d, s, G) ==
  build_loop(d, [sent |-> s, asserted |-> FALSE], G, 0)

(***************************************************************************)
(* Dictionaries: the literal words, the words some regex matches, the      *)
(* affix table, the spell oracle and the options.                          *)
(***************************************************************************)
NoDict ==
  [words |-> {}, regex |-> {}, regex_name |-> <<"REGEX">>,
   left_wall_defined |-> FALSE, right_wall_defined |-> FALSE,
   affix_table |-> TRUE, infix_mark |-> <<>>,
   LPUNC |-> <<>>, RPUNC |-> <<>>, UNITS |-> <<>>,
   PRE |-> <<>>, SUF |-> <<>>, MPRE |-> <<>>, STEMSUBSCR |-> <<>>,
   QUOTES |-> {}, BULLETS |-> {},
   tests |-> {},
   spell_checker |-> FALSE, use_spell_guess |-> FALSE,
   spell_words |-> {}, suggest |-> <<>>,
   unknown_word_defined |-> FALSE, use_unknown_word |-> FALSE,
   display_morphology |-> FALSE, entity |-> {}, common_entity |-> {}]

\* Morphology with an infix mark, as in the Russian dictionary.
DictInfix == [NoDict EXCEPT !.infix_mark = <<"=">>]
\* The same under the no-suffixes test.
DictNoSuffixes == [DictInfix EXCEPT !.tests = {"no-suffixes"}]

\* No affix table at all.
DictNoAffix == [NoDict EXCEPT !.affix_table = FALSE, !.words = {<<"a", "b", ".">>}]

\* Units written with their period, the period also right punctuation.
DictUnitsDot ==
  [NoDict EXCEPT !.words = {<<"1", "2">>},
                 !.RPUNC = <<<<".">>>>,
                 !.UNITS = <<<<"s", "q", ".">>, <<"f", "t", ".">>>>]

\* Units and punctuation as in the English affix file.
DictUnits ==
  [NoDict EXCEPT !.words = {<<"1", "2">>, <<"8", "6">>, <<"s", "u", "r">>, <<"s", "q", ".">>},
                 !.use_unknown_word = TRUE,
                 !.LPUNC = <<<<"(">>>>,
                 !.RPUNC = <<<<".">>, <<")">>, <<"!">>>>,
                 !.UNITS = <<<<"s", "q">>, <<"f", "t">>, <<"m", "m">>>>]

\* English: walls, quotes, contractions, capitalized words by regex.
DictEn ==
  [NoDict EXCEPT !.words = {<<"y", "o", "u">>, <<"H", "e", "l", "l", "o">>, <<"h", "e", "l", "l", "o">>, <<".">>, <<"D", "e", "l", "f", "t">>,
                            LEFT_WALL_WORD, RIGHT_WALL_WORD, UNKNOWN_WORD, <<"REGEX">>},
                 !.unknown_word_defined = TRUE,
                 !.use_unknown_word = TRUE,
                 !.regex = {<<"H", "e", "l", "l", "o">>, <<"H", "i">>},
                 !.left_wall_defined = TRUE,
                 !.right_wall_defined = TRUE,
                 !.RPUNC = <<<<".">>>>,
                 !.SUF = <<<<"'", "v", "e">>>>,
                 !.QUOTES = {"\""},
                 !.BULLETS = {"*"}]

\* Russian: infix mark, stem subscript, an empty suffix.
DictRu ==
  [NoDict EXCEPT !.words = {<<"d", "o", "m">>, <<"d", "o", "m", ".", "=">>, <<"=", "a">>, <<"=">>,
                            LEFT_WALL_WORD, EMPTY_WORD_MARK},
                 !.infix_mark = <<"=">>,
                 !.left_wall_defined = TRUE,
                 !.SUF = <<<<"a">>, <<>> >>,
                 !.STEMSUBSCR = <<<<".", "=">>>>]
\* Russian with a prefix in PRE.
DictRuPre == [DictRu EXCEPT !.PRE = <<<<"p", "o">>>>]
\* Russian under the no-suffixes test.
DictRuNoSuffixes == [DictRu EXCEPT !.tests = {"no-suffixes"}]

\* Hebrew: multi-prefix subwords, longest first.
DictHe ==
  [NoDict EXCEPT !.words = {<<"lamed", "mem">>, <<VAV, "lamed">>},
                 !.infix_mark = <<"=">>,
                 !.MPRE = <<<<"bet", "he">>, <<VAV>>, <<"bet">>, <<"he">>>>]

\* Hebrew with six one-letter prefix subwords, one more than
\* HEB_PRENUM_MAX.
DictHeMany ==
  [NoDict EXCEPT !.words = {<<"shin", "nun">>, <<"nun">>},
                 !.infix_mark = <<"=">>,
                 !.MPRE = <<<<"bet">>, <<"he">>, <<"kaf">>, <<"lamed">>, <<"mem">>, <<"shin">>>>]

\* English with a spell checker.
DictSpell ==
  [NoDict EXCEPT !.words = {<<"t", "h", "e">>, <<"c", "a", "t">>, UNKNOWN_WORD, <<"REGEX">>},
                 !.unknown_word_defined = TRUE,
                 !.use_unknown_word = TRUE,
                 !.spell_checker = TRUE,
                 !.use_spell_guess = TRUE,
                 !.spell_words = {<<"o", "k">>},
                 !.regex = {<<"1", "s">>},
                 !.SUF = <<<<"'", "s">>>>,
                 !.suggest = (<<"t", "h", "e", "c", "a", "t">> :> <<<<"t", "h", "e", " ", "c", "a", "t">>, <<"t", "h", "a", "t">>>>)
                          @@ (<<"t", "e", "h">> :> <<<<"t", "e", "n">>, <<"t", "h", "e">>>>)
                          @@ (<<"t", "h", "a">> :> <<<<" ", "t", "h", "e">>>>)
                          @@ (<<"c", "t">> :> <<<<"c", " ", " ", "t">>, <<"c", "a", "t">>>>)
                          @@ (<<"c", "a", "t", "'", "s">> :> <<<<"c", "a", "t">>>>)]

\* Prefixes and suffixes with an infix mark and no stem subscript.
DictPre ==
  [NoDict EXCEPT !.words = {<<"d", "o">>, <<"u", "n", "=">>, <<"=", "s">>},
                 !.regex = {<<"d", "o", "o">>},
                 !.infix_mark = <<"=">>,
                 !.PRE = <<<<"u", "n">>>>,
                 !.SUF = <<<<"s">>>>]

\* The regex step under the tests "parallel-regex" and "parallels-regex";
\* one regex matches a tagged string.
DictParallel ==
  [NoDict EXCEPT !.words = {<<"1", "s">>, <<"h", "i">>, UNKNOWN_WORD, <<"REGEX">>},
                 !.unknown_word_defined = TRUE,
                 !.use_unknown_word = TRUE,
                 !.regex = {<<"1", "s">>, <<"2", "s">> \o REGEX_TAG, <<"h", "i">> \o REGEX_TAG},
                 !.tests = {"parallel-regex", "parallels-regex"}]
\* The same under "parallel-regex" alone.
DictParallelOnly == [DictParallel EXCEPT !.tests = {"parallel-regex"}]

\* Quotes around words with punctuation on both sides.
DictQuote ==
  [NoDict EXCEPT !.words = {<<"h", "i">>, <<"(">>, <<".">>, LEFT_WALL_WORD},
                 !.left_wall_defined = TRUE,
                 !.LPUNC = <<<<"(">>>>,
                 !.RPUNC = <<<<".">>>>,
                 !.QUOTES = {"\""}]

\* A spell checker with more suggestions than MAX_NUM_SPELL_GUESSES for one
\* word: the run-ons "a t", "aa t", "aaa t", ...
ManySuggestions == MAX_NUM_SPELL_GUESSES + 2
DictSpellMany ==
  [DictSpell EXCEPT !.suggest = (<<"z", "z">> :>
                       [i \in 1..ManySuggestions |-> [k \in 1..i |-> "a"] \o <<" ", "t">>])]

\* English names: Sue is an entity, sun and abc are common entities, she is
\* neither; the regex of capitalized words matches She and Sun, and Abc is
\* known in lower case only.  There is no entry for unknown words.
DictCap ==
  [NoDict EXCEPT !.words = {<<"s", "h", "e">>, <<"s", "u", "n">>, <<"s", "u", "e">>, <<"S", "u", "e">>, <<"a", "b", "c">>,
                            LEFT_WALL_WORD, <<"REGEX">>},
                 !.regex = {<<"S", "h", "e">>, <<"S", "u", "n">>},
                 !.left_wall_defined = TRUE,
                 !.display_morphology = TRUE,
                 !.entity = {<<"S", "u", "e">>},
                 !.common_entity = {<<"s", "u", "n">>, <<"a", "b", "c">>}]

(***************************************************************************)
(* Buffer specification: any caller of add_alternative and                 *)
(* issue_alternatives.                                                     *)
(***************************************************************************)
BufferDicts == {NoDict, DictInfix, DictNoSuffixes}

\* The decompositions callers pass: prefix list, stem list, suffix list.
Decomp(p, s, q) == [prefix |-> p, stem |-> s, suffix |-> q]
Decompositions ==
  { Decomp(<<>>, << <<"b">> >>, <<>>),
    Decomp(<<>>, << <<"B">> >>, <<>>),
    Decomp(<< <<"a">> >>, << <<"b">> >>, << <<"s">> >>),
    Decomp(<<>>, << <<"b">> >>, << <<"'", "s">> >>),
    Decomp(<<>>, << <<"b">> >>, << <<>> >>),
    Decomp(<<>>, << <<>> >>, <<>>),
    Decomp(<< <<"a">> >>, <<>>, <<>>),
    Decomp(<<>>, << <<"b">>, <<"b">> >>, <<>>),
    Decomp(<<>>, << <<"b">>, <<>>, <<"b">> >>, <<>>),
    Decomp(<<>>, << <<>>, <<"b">> >>, <<>>) }

RawWords == { <<"b">> }

\* The formatted components of a decomposition, as add_alternative is to
\* store them, one per slot.
Formatted(d, dc) ==
  LET a == affixlist(dc.prefix, dc.stem, dc.suffix)
  IN [i \in 1..Len(a) |-> format_affix(d, a[i].at, a[i].str)]

\* last, before any separate_word call.
NoLast ==
  [given |-> <<>>, quote_found |-> FALSE, len0 |-> 0, l_stripped |-> <<>>,
   w |-> <<>>, core |-> <<>>, before |-> EmptySentence,
   r_stripped |-> <<>>, r_index |-> <<>>,
   n_r_stripped |-> 0, core_end |-> 0, len1 |-> 0,
   word_is_in_dict |-> FALSE, regex |-> FALSE, spell |-> FALSE, start |-> 0]

InitBuffer ==
  /\ dict \in BufferDicts
  /\ sent = EmptySentence
  /\ input = <<>>
  /\ pos = 0
  /\ pc = "api"
  /\ staged = <<>>
  /\ groups = <<>>
  /\ nadds = 0
  /\ last = NoLast

AddAlternative ==
  /\ pc = "api"
  /\ nadds < MaxAdds
  /\ \E dc \in Decompositions :
       /\ sent' = add_alternative(dict, sent, dc.prefix, dc.stem, dc.suffix)
       /\ staged' = IF empty_first_affix(affixlist(dc.prefix, dc.stem, dc.suffix))
                    THEN staged
                    ELSE Append(staged, Formatted(dict, dc))
  /\ nadds' = nadds + 1
  /\ UNCHANGED <<dict, input, pos, pc, groups, last>>

IssueAlternatives ==
  /\ pc = "api"
  /\ \E word \in RawWords, quote_found \in BOOLEAN :
       LET r == issue_alternatives(sent, word, quote_found)
       IN /\ sent' = r.sent
          /\ groups' = IF r.ret
                       THEN Append(groups, [start |-> sent.t_start,
                                            count |-> sent.t_count,
                                            decomps |-> staged,
                                            raw |-> word])
                       ELSE groups
          /\ staged' = IF r.ret THEN <<>> ELSE staged
  /\ UNCHANGED <<dict, input, pos, pc, nadds, last>>

NextBuffer == AddAlternative \/ IssueAlternatives

Spec == InitBuffer /\ [][NextBuffer]_vars

(***************************************************************************)
(* Sentence specification: separate_sentence on an input string.           *)
(***************************************************************************)
\* A byte sequence mbrtowc cannot decode.
BadChar == "invalid"

RECURSIVE Concats(_, _)
\* The strings made of at most n of the pieces P.
Concats(P, n) ==
  IF n = 0 THEN {<<>>}
  ELSE {<<>>} \cup {p \o r : p \in P, r \in Concats(P, n - 1)}

\* The dictionaries and the pieces of the inputs tried with each.
Scenarios ==
  { [dict |-> DictNoAffix, pieces |-> {<<"a", "b", ".">>, <<" ">>, <<BadChar>>}],
    [dict |-> DictUnitsDot, pieces |-> {<<"1", "2", "s", "q", ".", "f", "t", ".">>, <<" ">>}],
    [dict |-> DictUnits,
     pieces |-> {<<"1", "2", "s", "q", ".", "f", "t", ".">>, <<"D", "e", "l", "f", "t">>, <<"8", "6", "m", "m">>, <<"(", "s", "u", "r", "!", ")">>, <<"s", "q", ".">>,
                 [i \in 1..(MAX_STRIP + 1) |-> "."], <<"1", "2", "s", "q", "f", "t">>, <<"(">>, <<" ">>}],
    [dict |-> DictEn,
     pieces |-> {<<"y", "o", "u", "'", "v", "e">>, <<"H", "e", "l", "l", "o">>, <<"h", "e", "l", "l", "o">>, <<"D", "e", "l", "f", "t">>, <<".">>,
                 <<" ">>, <<"\"">>}],
    [dict |-> DictRu, pieces |-> {<<"d", "o", "m", "a">>, <<"d", "o", "m">>, <<" ">>}],
    [dict |-> DictRuPre, pieces |-> {<<"p", "o", "d", "o", "m">>, <<"d", "o", "m", "a">>, <<" ">>}],
    [dict |-> DictRuNoSuffixes, pieces |-> {<<"d", "o", "m", "a">>, <<"d", "o", "m">>, <<" ">>}],
    [dict |-> DictHe, pieces |-> {<<VAV, "bet", "lamed", "mem">>, <<"bet", VAV, VAV, "lamed">>, <<"bet", "he">>, <<"bet", VAV, "lamed">>, <<" ">>}],
    [dict |-> DictCap, pieces |-> {<<"S", "h", "e">>, <<"S", "u", "n">>, <<"S", "u", "e">>, <<"A", "b", "c">>, <<" ">>}],
    [dict |-> DictPre,
     pieces |-> {<<"u", "n", "d", "o", "o">>, <<"u", "n", "d", "o", "s">>, <<"u", "n", "d", "o", "t">>, <<"d", "o", "o", "s">>, <<" ">>}],
    [dict |-> DictParallel, pieces |-> {<<"1", "s">>, <<"2", "s">>, <<"H", "i">>, <<" ">>}],
    [dict |-> DictParallelOnly, pieces |-> {<<"1", "s">>, <<"2", "s">>, <<" ">>}],
    [dict |-> DictQuote, pieces |-> {<<"(", "h", "i", ".">>, <<"\"">>, <<" ">>}],
    [dict |-> DictHeMany,
     pieces |-> {<<"bet", "he", "kaf", "lamed", "mem", "shin", "nun">>, <<"bet", "bet", "nun">>, <<" ">>}],
    [dict |-> DictSpellMany, pieces |-> {<<"z", "z">>, <<" ">>}],
    [dict |-> DictSpell, pieces |-> {<<"c", "a", "t", "'", "s">>, <<"1", "s">>, <<"t", "h", "e", "c", "a", "t">>, <<"t", "e", "h">>, <<"t", "h", "a">>, <<"c", "t">>, <<" ">>}] }

InitSentence ==
  /\ \E sc \in Scenarios :
       /\ dict = sc.dict
       /\ input \in Concats(sc.pieces, MaxPieces)
  /\ sent = EmptySentence
  /\ pos = 0
  /\ pc = "start"
  /\ staged = <<>>
  /\ groups = <<>>
  /\ nadds = 0
  /\ last = NoLast

\* The code point at offset i of the input, NUL at its end.
NUL == "NUL"
At(i) == IF i < Len(input) THEN input[i + 1] ELSE NUL

\* sent->length = 0 and the left wall.
Start ==
  /\ pc = "start"
  /\ sent' = IF dict.left_wall_defined
             THEN issue_sentence_word(dict, sent, LEFT_WALL_WORD, FALSE)
             ELSE sent
  /\ pc' = "scan"
  /\ UNCHANGED <<dict, input, pos, staged, groups, nadds, last>>

\* Where the scan of separators from offset i stops: the first offset that
\* holds neither white space nor a quote.
SkipSeparators(i) ==
  CHOOSE j \in i..Len(input) :
    /\ ~(is_space(At(j)) \/ is_quote(dict, At(j)))
    /\ \A k \in i..(j - 1) : is_space(At(k)) \/ is_quote(dict, At(k))

\* Whether the code point c ends a word.
EndsWord(c) == is_space(c) \/ is_quote(dict, c) \/ c = NUL \/ c = BadChar

\* Where the word starting at offset i ends.
WordEnd(i) ==
  CHOOSE j \in i..Len(input) :
    EndsWord(At(j)) /\ \A k \in i..(j - 1) : ~EndsWord(At(k))

\* One pass of the for (;;) loop of separate_sentence.  When separate_word
\* runs into undefined behaviour the program is left at "ub", where nothing
\* more is known of it.
ScanWord ==
  /\ pc = "scan"
  /\ \E word_start \in {SkipSeparators(pos)} :
     \E word_end \in {WordEnd(word_start)} :
       IF At(word_start) = BadChar \/ At(word_end) = BadChar
       THEN /\ pc' = "failure"
            /\ UNCHANGED <<sent, pos, last>>
       ELSE IF At(word_start) = NUL
       THEN /\ pc' = "wall"
            /\ pos' = word_start
            /\ UNCHANGED <<sent, last>>
       ELSE \E r \in {separate_word(dict, sent,
                                     SubSeq(input, word_start + 1, word_end),
                                     \E i \in pos..(word_start - 1) :
                                        is_quote(dict, At(i)))} :
              /\ sent' = r.sent
              /\ last' = r.info @@ [start |-> word_start]
              /\ pos' = word_end
              /\ pc' = IF r.sent.ub THEN "ub"
                       ELSE IF At(word_end) = NUL THEN "wall" ELSE "scan"
  /\ UNCHANGED <<dict, input, staged, groups, nadds>>

\* The right wall, after the loop.
Finish ==
  /\ pc = "wall"
  /\ sent' = IF dict.right_wall_defined
             THEN issue_sentence_word(dict, sent, RIGHT_WALL_WORD, FALSE)
             ELSE sent
  /\ pc' = "done"
  /\ UNCHANGED <<dict, input, pos, staged, groups, nadds, last>>

\* The words whose post_quote entry was never written and that hold a
\* capitalized alternative.
UnwrittenPostQuote ==
  {i \in 0..(sent.length - 1) :
     /\ i + 1 > Len(sent.post_quote) \/ sent.post_quote[i + 1] = UNINIT
     /\ \E k \in 1..Len(sent.word[i + 1].alternatives) :
          is_utf8_upper(sent.word[i + 1].alternatives[k])}

\* build_sentence_expressions on the sentence separate_sentence left.
BuildSentenceExpressions ==
  /\ pc = "done"
  /\ \E G \in SUBSET UnwrittenPostQuote :
       \E r \in {build_sentence_expressions(dict, sent, G)} :
         /\ sent' = r.sent
         /\ pc' = IF r.asserted THEN "assert" ELSE "built"
  /\ UNCHANGED <<dict, input, pos, staged, groups, nadds, last>>

NextSentence == Start \/ ScanWord \/ Finish \/ BuildSentenceExpressions

SpecSentence == InitSentence /\ [][NextSentence]_vars

(***************************************************************************)
(* Properties of the alternative buffer.                                   *)
(***************************************************************************)
\* Slot i (counted from 0) of the sentence.
Slot(i) == sent.word[i + 1]
GroupSlots(g) == g.start .. (g.start + g.count - 1)
CommittedGroups == {groups[n] : n \in 1..Len(groups)}

\* C1. Balance: in every committed token group all slots hold the same
\* number of alternatives, whatever the component counts of the
\* decompositions and the order they were added in.
C1_Balance ==
  \A g \in CommittedGroups : \A i \in GroupSlots(g) :
    Len(Slot(i).alternatives) = Len(Slot(g.start).alternatives)

\* A committed group of several slots built from decompositions of
\* different component counts.
C1_Witness ==
  \E g \in CommittedGroups :
    /\ g.count >= 2
    /\ \E k1, k2 \in 1..Len(g.decomps) :
         k1 < k2 /\ Len(g.decomps[k1]) < Len(g.decomps[k2])

\* The open group seen as a group record.
OpenGroup ==
  [start |-> sent.t_start, count |-> sent.t_count, decomps |-> staged, raw |-> <<>>]

Aligned(g) ==
  \A i \in GroupSlots(g) :
    /\ Len(Slot(i).alternatives) = Len(g.decomps)
    /\ \A k \in 1..Len(g.decomps) :
         Slot(i).alternatives[k] =
           IF i - g.start < Len(g.decomps[k])
           THEN g.decomps[k][i - g.start + 1]
           ELSE EMPTY_WORD_MARK

\* C2. Alignment: in a token group, committed or open, alternatives[k] at
\* slot t_start+j is the formatted j-th component of the k-th accepted
\* decomposition when it has more than j components, and the empty-word
\* marker otherwise.
C2_Alignment == \A g \in CommittedGroups \cup {OpenGroup} : Aligned(g)

\* A committed group where a decomposition shorter than the group follows a
\* longer one, and one where it precedes a longer one.
C2_Witness ==
  /\ \E g \in CommittedGroups : \E k1, k2 \in 1..Len(g.decomps) :
       k1 < k2 /\ Len(g.decomps[k1]) > Len(g.decomps[k2])
  /\ \E g \in CommittedGroups : \E k1, k2 \in 1..Len(g.decomps) :
       k1 < k2 /\ Len(g.decomps[k1]) < Len(g.decomps[k2])

\* C9. After a commit, for every slot index i < length, unsplit_word[i] is
\* set if and only if slot i is the first slot of a committed token group.
C9_UnsplitWordAtGroupStart ==
  \A i \in 0..(sent.length - 1) :
    (~Slot(i).unsplit_word.null) <=> (\E g \in CommittedGroups : g.start = i)

\* A committed group of several slots followed by another committed group.
C9_Witness ==
  /\ Len(groups) >= 2
  /\ groups[1].count >= 2

\* C10. length never decreases, and no call changes the slots below the
\* current length: their number, alternatives, unsplit_word and firstupper.
C10_CommittedSlotsFrozen ==
  [][/\ sent'.length >= sent.length
     /\ Len(sent'.word) >= sent.length
     /\ \A i \in 1..sent.length : sent'.word[i] = sent.word[i]]_vars

\* Alternatives staged for a later raw token after a group was committed.
C10_Witness ==
  /\ Len(groups) >= 1
  /\ sent.length >= 1
  /\ sent.t_count >= 1
  /\ sent.t_start = sent.length

(***************************************************************************)
(* Properties of the tokenization of a sentence.                           *)
(***************************************************************************)
\* The alternatives of the committed slots, in order.
Lattice == [i \in 1..sent.length |-> sent.word[i].alternatives]

\* The slots of the walls the dictionary defines.
LeftWall == IF dict.left_wall_defined THEN <<<<LEFT_WALL_WORD>>>> ELSE <<>>
RightWall == IF dict.right_wall_defined THEN <<<<RIGHT_WALL_WORD>>>> ELSE <<>>

\* One slot with one alternative for each of the strings.
Unitary(strs) == [i \in 1..Len(strs) |-> <<strs[i]>>]

\* C3. No alternative stored in any slot is the empty string.
C3_NoEmptyAlternative ==
  \A i \in 1..Len(sent.word) : \A k \in 1..Len(sent.word[i].alternatives) :
    sent.word[i].alternatives[k] # <<>>

\* The number of strips strip_right made for the last token, and the token
\* it was handed.
MaxStripReached == last.n_r_stripped >= MAX_STRIP

\* C4. When right stripping of a token reaches MAX_STRIP strips, the whole
\* token is committed as one slot with one alternative, after the pieces
\* stripped from its left.
C4_MaxStripKeepsToken ==
  MaxStripReached =>
    /\ last.len1 = last.len0 + Len(last.l_stripped) + 1
    /\ Slot(last.len1 - 1).alternatives \in {<<last.given>>, <<last.w>>}

\* The words of the input when single spaces separate them.
InputWords == SplitAtSpaces(input)

\* The input is made only of literal dictionary words separated by single
\* spaces.
DictionarySentence ==
  \A i \in 1..Len(InputWords) : boolean_dictionary_lookup(dict, InputWords[i])

\* C5, as stated. For a sentence of literal dictionary words separated by
\* single spaces, the slots between the walls are one slot per input word,
\* in order, each with the input word as its only alternative.
C5_RoundTrip ==
  (pc = "done" /\ DictionarySentence) =>
    Lattice = LeftWall \o Unitary(InputWords) \o RightWall

\* Some splitter finds a decomposition of w.
CanSplit(w) ==
  \/ suffix_split(dict, EmptySentence, w).sent # EmptySentence
  \/ mprefix_split(dict, EmptySentence, w).sent # EmptySentence

\* The word w has one reading only: it holds no separator, no splitter
\* decomposes it or its lower-cased form, and when it is capitalized no
\* regex matches it and its lower-cased form is not in the dictionary.
Unambiguous(w) ==
  /\ Len(w) <= MAX_WORD
  /\ \A i \in 1..Len(w) : ~is_space(w[i]) /\ ~is_quote(dict, w[i])
  /\ ~CanSplit(w)
  /\ ~CanSplit(downcase_utf8_str(w, MAX_WORD))
  /\ is_utf8_upper(w) =>
       /\ match_regex(dict, w).null
       /\ ~boolean_dictionary_lookup(dict, downcase_utf8_str(w, MAX_WORD))

UnambiguousSentence ==
  /\ DictionarySentence
  /\ ~test_enabled(dict, "parallel-regex")
  /\ \A i \in 1..Len(InputWords) : Unambiguous(InputWords[i])

\* C5. Round trip: for a sentence of literal dictionary words separated by
\* single spaces, each word having one reading only, the slots between the
\* walls are one slot per input word, in order, each with the input word as
\* its only alternative.
C5_RoundTripUnambiguous ==
  (pc = "done" /\ UnambiguousSentence) =>
    Lattice = LeftWall \o Unitary(InputWords) \o RightWall

\* A tokenized sentence of two different unambiguous dictionary words.
C5_Witness ==
  /\ pc = "done"
  /\ UnambiguousSentence
  /\ Len(InputWords) = 2
  /\ InputWords[1] # InputWords[2]

\* The token of the units scenario.
Token12sqft == <<"1", "2", "s", "q", ".", "f", "t", ".">>

\* sq. and ft. are units written with their period, the period is right
\* punctuation, 12 is a dictionary word and no longer part of the token is.
UnitsWithPeriod ==
  /\ \E i \in 1..Len(dict.UNITS) : dict.UNITS[i] = <<"s", "q", ".">>
  /\ \E i \in 1..Len(dict.UNITS) : dict.UNITS[i] = <<"f", "t", ".">>
  /\ \E i \in 1..Len(dict.RPUNC) : dict.RPUNC[i] = <<".">>
  /\ find_word_in_dict(dict, <<"1", "2">>)
  /\ \A n \in 3..Len(Token12sqft) : ~find_word_in_dict(dict, Take(Token12sqft, n))

\* sq and ft are units written without a period.
UnitsWithoutPeriod ==
  /\ \E i \in 1..Len(dict.UNITS) : dict.UNITS[i] = <<"s", "q">>
  /\ \E i \in 1..Len(dict.UNITS) : dict.UNITS[i] = <<"f", "t">>
  /\ \E i \in 1..Len(dict.RPUNC) : dict.RPUNC[i] = <<".">>
  /\ find_word_in_dict(dict, <<"1", "2">>)
  /\ \A n \in 3..Len(Token12sqft) : ~find_word_in_dict(dict, Take(Token12sqft, n))

\* C6, as stated. The token 12sq.ft. with the units sq. and ft. tokenizes
\* to the four slots 12, sq., ft. and the period.
C6_FourSlots ==
  (pc = "done" /\ input = Token12sqft /\ UnitsWithPeriod) =>
    Lattice = LeftWall
                \o Unitary(<<<<"1", "2">>, <<"s", "q", ".">>, <<"f", "t", ".">>, <<".">>>>)
                \o RightWall

\* C6. The token 12sq.ft. with the units sq. and ft. tokenizes to the two
\* slots 12sq.ft and the period: the period is stripped first, and no unit
\* ends what is left.  With the units sq and ft it tokenizes to the five
\* slots 12, sq, period, ft, period.
C6_UnitsScenario ==
  /\ (pc = "done" /\ input = Token12sqft /\ UnitsWithPeriod) =>
       Lattice = LeftWall
                   \o Unitary(<<<<"1", "2", "s", "q", ".", "f", "t">>, <<".">>>>)
                   \o RightWall
  /\ (pc = "done" /\ input = Token12sqft /\ UnitsWithoutPeriod) =>
       Lattice = LeftWall
                   \o Unitary(<<<<"1", "2">>, <<"s", "q">>, <<".">>, <<"f", "t">>, <<".">>>>)
                   \o RightWall

\* The token 12sq.ft. tokenized with the units sq. and ft.
C6_Witness == pc = "done" /\ input = Token12sqft /\ UnitsWithPeriod

\* The k-th strip of the last token took a UNITS entry.
UnitStrip(k) == last.r_index[k] >= Len(dict.RPUNC)

\* No unit is stripped right after another unit.
NoUnitAfterUnit ==
  \A k \in 2..Len(last.r_index) : UnitStrip(k) => ~UnitStrip(k - 1)

\* Delft with ft a unit stays one slot.
DelftStaysWhole ==
  (/\ pc = "done"
   /\ input = <<"D", "e", "l", "f", "t">>
   /\ \E i \in 1..Len(dict.UNITS) : dict.UNITS[i] = <<"f", "t">>) =>
    Lattice = LeftWall \o Unitary(<<input>>) \o RightWall

\* C7, as stated. A unit is stripped only if the raw token starts with a
\* digit, and never right after another unit strip; Delft with ft a unit
\* stays one slot.
C7_UnitGatingRawToken ==
  /\ \A k \in 1..Len(last.r_index) : UnitStrip(k) => is_utf8_digit(last.given)
  /\ NoUnitAfterUnit
  /\ DelftStaysWhole

\* C7. A unit is stripped only if the token that is left once its left
\* punctuation is stripped starts with a digit, and never right after
\* another unit strip; Delft with ft a unit stays one slot.
C7_UnitGating ==
  /\ \A k \in 1..Len(last.r_index) : UnitStrip(k) => is_utf8_digit(last.w)
  /\ NoUnitAfterUnit
  /\ DelftStaysWhole

\* A token that lost a unit, then punctuation, then a unit again.
C7_Witness ==
  \E k \in 3..Len(last.r_index) :
    UnitStrip(k) /\ ~UnitStrip(k - 1) /\ UnitStrip(k - 2)

RECURSIVE Joined(_)
\* The strings of a sequence, one after the other.
Joined(strs) == IF strs = <<>> THEN <<>> ELSE Head(strs) \o Joined(Tail(strs))

\* The first n stripped pieces, the last stripped first.
InputOrder(r_stripped, n) == [k \in 1..n |-> r_stripped[n + 1 - k]]

\* The pieces stripped from the right of the last token are committed after
\* its core, each a slot of its own with one alternative, the first slot of
\* a group, in the order they have in the input.
PiecesFollowCore ==
  /\ last.len1 = last.core_end + last.n_r_stripped
  /\ \A k \in 1..last.n_r_stripped :
       /\ Slot(last.core_end + k - 1).alternatives =
            <<last.r_stripped[last.n_r_stripped + 1 - k]>>
       /\ ~Slot(last.core_end + k - 1).unsplit_word.null
  /\ last.w = Joined(<<last.core>> \o InputOrder(last.r_stripped, last.n_r_stripped))

C11_EmptyCommitIsNoOp ==
  [][(pc = "api" /\ sent.t_count = 0 /\ nadds' = nadds)
       => (sent' = sent /\ groups' = groups /\ staged' = staged)]_vars

\* A group has been committed and nothing is staged: issue_alternatives is
\* called on an empty group from here.
C11_Witness ==
  /\ pc = "api"
  /\ groups # <<>>
  /\ sent.t_count = 0
  /\ sent.length > 0
  /\ Len(sent.post_quote) = sent.length - groups[Len(groups)].count + 1

\* The alternative alt stored for the component raw of type at carries the
\* infix mark where a decomposition is to carry it.
MarkedByRole(at, raw, alt) ==
  CASE at = "PREFIX" -> alt = raw \o dict.infix_mark
    [] at = "STEM" -> alt = raw
    [] at = "SUFFIX" ->
         /\ is_utf8_alpha(raw) => alt = dict.infix_mark \o raw
         /\ (raw # <<>> /\ ~is_utf8_alpha(raw)) => alt = raw

\* The step is add_alternative accepting the decomposition dc.
AddsDecomposition(dc) ==
  /\ pc = "api"
  /\ nadds' = nadds + 1
  /\ ~empty_first_affix(affixlist(dc.prefix, dc.stem, dc.suffix))
  /\ sent' = add_alternative(dict, sent, dc.prefix, dc.stem, dc.suffix)

\* The newest alternative of the i-th slot of the staged group, after the
\* step.
NewestAlternative(i) ==
  sent'.word[sent.t_start + i].alternatives[Len(sent'.word[sent.t_start + i].alternatives)]

\* Every component of dc is stored with the marks of its role.
StoredMarked(dc) ==
  \A i \in 1..Len(affixlist(dc.prefix, dc.stem, dc.suffix)) :
    MarkedByRole(affixlist(dc.prefix, dc.stem, dc.suffix)[i].at,
                 affixlist(dc.prefix, dc.stem, dc.suffix)[i].str,
                 NewestAlternative(i))

\* Every suffix component of dc is stored as given.
SuffixesVerbatim(dc) ==
  \A i \in 1..Len(dc.suffix) :
    NewestAlternative(Len(dc.prefix) + Len(dc.stem) + i) = dc.suffix[i]

\* C12, as stated. When the infix mark is non-empty, every stored prefix
\* component ends with the mark, every suffix component that begins with a
\* letter starts with it, a suffix component that begins with another
\* character is stored as given, and a stem is stored as given.
C12_InfixMarks ==
  [][\A dc \in Decompositions :
       (dict.infix_mark # <<>> /\ AddsDecomposition(dc)) => StoredMarked(dc)]_vars

\* C12. When the infix mark is non-empty and the no-suffixes test is off,
\* every stored prefix component ends with the mark, every suffix component
\* that begins with a letter starts with it, a suffix component that begins
\* with another character is stored as given, and a stem is stored as given.
\* Under the no-suffixes test every suffix component is stored as given.
C12_InfixMarksUnlessNoSuffixes ==
  [][\A dc \in Decompositions :
       (dict.infix_mark # <<>> /\ AddsDecomposition(dc)) =>
         IF test_enabled(dict, "no-suffixes")
         THEN SuffixesVerbatim(dc)
         ELSE StoredMarked(dc)]_vars

\* A prefix, a stem and a suffix that begins with a letter are staged with
\* their marks, and a suffix that begins with an apostrophe as given.
C12_Witness ==
  /\ pc = "api"
  /\ dict.infix_mark = <<"=">>
  /\ ~test_enabled(dict, "no-suffixes")
  /\ sent.t_count = 3
  /\ sent.word[sent.t_start + 1].alternatives[1] = <<"a", "=">>
  /\ sent.word[sent.t_start + 2].alternatives[1] = <<"b">>
  /\ sent.word[sent.t_start + 3].alternatives[1] = <<"=", "s">>
  /\ \E k \in 1..Len(sent.word[sent.t_start + 2].alternatives) :
       sent.word[sent.t_start + 2].alternatives[k] = <<"'", "s">>

(***************************************************************************)
(* Properties of the expression builder.                                   *)
(***************************************************************************)
\* C13. The assertion that ends the three lookups of
\* build_sentence_expressions is never reached, whatever the lattice
\* separate_sentence produced and whatever the unknown-word configuration.
C13_AssertionNeverReached == pc # "assert"

\* The index of the first word after the left wall.
FirstWord == IF dict.left_wall_defined THEN 1 ELSE 0

\* The word committed at the first position after the wall, and its
\* lower-cased form.
FirstCore == Slot(FirstWord).unsplit_word.str
FirstLower == downcase_utf8_str(FirstCore, MAX_WORD)

\* The strings of the alternatives of the first word, and of its
\* expressions.
FirstAlternatives ==
  {Slot(FirstWord).alternatives[k] : k \in 1..Len(Slot(FirstWord).alternatives)}
FirstExpressions == {Slot(FirstWord).x[k].string : k \in 1..Len(Slot(FirstWord).x)}

\* The expressions are built and a capitalized word stands at the first
\* position after the wall, its lower-cased form a literal dictionary word.
CapitalizedFirst ==
  /\ pc = "built"
  /\ sent.length > FirstWord
  /\ is_utf8_upper(FirstCore)
  /\ boolean_dictionary_lookup(dict, FirstLower)

\* The dictionary marks w as an entity, itself or through the regex that
\* matches it; it marks w as a common entity.
MarkedEntity(w) ==
  \/ w \in dict.entity
  \/ w \in dict.regex /\ dict.regex_name \in dict.entity
MarkedCommonEntity(w) == w \in dict.common_entity

\* The slot offers the upper-case and the lower-case form, as alternatives
\* and as expressions.
OffersBothForms ==
  /\ {FirstCore, FirstLower} \subseteq FirstAlternatives
  /\ FirstLower \in FirstExpressions
  /\ \E e \in FirstExpressions : StartsWith(e, FirstCore)

\* No alternative and no expression of the slot is upper-case.
OffersLowerOnly ==
  /\ \A a \in FirstAlternatives : ~is_utf8_upper(a)
  /\ \A e \in FirstExpressions : ~is_utf8_upper(e)
  /\ FirstLower \in FirstAlternatives
  /\ FirstLower \in FirstExpressions

UpperFormStored ==
  \/ boolean_dictionary_lookup(dict, FirstCore)
  \/ ~match_regex(dict, FirstCore).null /\ ~CanSplit(FirstCore)

SplitReported(w) ==
  \/ suffix_split(dict, EmptySentence, w).ret
  \/ mprefix_split(dict, EmptySentence, w).ret

C16_AtMostMaxGuesses ==
  (last.spell /\ ~CanSplit(last.core) /\ last.core_end > last.before.length) =>
    Len(sent.word[last.before.length + 1].alternatives) <= MAX_NUM_SPELL_GUESSES

\* C16 witness: a token for which the spell checker has more suggestions
\* than MAX_NUM_SPELL_GUESSES went through the spell expander.
C16_Witness ==
  /\ pc = "done"
  /\ last.spell
  /\ Len(spellcheck_suggest(dict, last.core)) > MAX_NUM_SPELL_GUESSES
  /\ Len(sent.word[last.before.length + 1].alternatives) > 1

(***************************************************************************)
(* C17: what suffix_split returns.                                         *)
(***************************************************************************)
\* The sentence suffix_split was called on for the core of the latest
\* token: the core itself is staged first when it is a dictionary word.
CoreStaged ==
  IF boolean_dictionary_lookup(dict, Take(last.core, MAX_WORD))
  THEN add_alternative(dict, last.before, <<>>, <<Take(last.core, MAX_WORD)>>, <<>>)
  ELSE last.before

\* No stem subscript and no infix mark: contractions, not morphemes.
NoMorphemeSplit == dict.STEMSUBSCR = <<>> /\ dict.infix_mark = <<>>

\* C17 (as stated): suffix_split returns true if and only if it added at
\* least one decomposition to the staged group during the call, whatever
\* SUF, PRE, STEMSUBSCR and the infix mark are.
C17_ReturnsTrueIffAdded ==
  \E r \in {suffix_split(dict, CoreStaged, last.core)} :
    r.ret <=> (r.sent # CoreStaged)

\* C17 (amended): suffix_split returns true if and only if it added at
\* least one decomposition to the staged group during the call and
\* STEMSUBSCR is non-empty or the infix mark is not NUL; with an empty
\* STEMSUBSCR and a NUL infix mark it returns false whatever it added.
C17_ReturnsTrueIffMorphemeAdded ==
  \E r \in {suffix_split(dict, CoreStaged, last.core)} :
    r.ret <=> (r.sent # CoreStaged /\ ~NoMorphemeSplit)

\* C17 witness: suffix_split added a decomposition of the core of a token
\* and returned false, and the token has been committed with it.
C17_Witness ==
  /\ pc = "done"
  /\ last.core_end - last.before.length = 2
  /\ \E r \in {suffix_split(dict, CoreStaged, last.core)} :
       r.sent # CoreStaged /\ ~r.ret

(***************************************************************************)
(* C18: the stems suffix_split emits.                                      *)
(***************************************************************************)
\* The decompositions suffix_split stages for the core of the latest token,
\* each the sequence of its components.
SuffixSplits ==
  UNION {{[j \in 1..r.t_count |-> r.word[j].alternatives[k]] :
            k \in 1..(IF r.t_count = 0 THEN 0 ELSE Len(r.word[1].alternatives))} :
         r \in {suffix_split(dict, EmptySentence, last.core).sent}}

\* The decomposition starts with a prefix, stored with the infix mark.
HasPrefix(c) == \E i \in 1..Len(dict.PRE) : c[1] = dict.PRE[i] \o dict.infix_mark

\* The stem of a decomposition: its first component after the prefix.
Stem(c) == IF HasPrefix(c) THEN c[2] ELSE c[1]

\* C18 (as stated): every stem emitted by suffix_split is a literal
\* dictionary word, with its subscript when STEMSUBSCR is non-empty, and
\* never a word that only a regex recognizes, whether or not STEMSUBSCR is
\* empty.
C18_StemsAreLiteralWords ==
  \A c \in SuffixSplits : Stem(c) \in dict.words

\* C18 (amended): when STEMSUBSCR is non-empty, every stem emitted by
\* suffix_split is a literal dictionary word with its subscript, and so is
\* the stem of every decomposition with a prefix; when STEMSUBSCR is empty,
\* the stem of a (stem, suffix) decomposition is a literal dictionary word
\* or a word that a regex matches.
C18_StemsAreLiteralUnlessNoSubscript ==
  \A c \in SuffixSplits :
    IF dict.STEMSUBSCR # <<>> \/ HasPrefix(c)
    THEN Stem(c) \in dict.words
    ELSE Stem(c) \in dict.words \cup dict.regex

\* C18 witness: suffix_split has emitted a stem that only a regex
\* recognizes, and the stem stands in the committed group.
C18_Witness ==
  /\ pc = "done"
  /\ \E c \in SuffixSplits :
       /\ Stem(c) \in dict.regex \ dict.words
       /\ \E k \in 1..Len(sent.word[last.before.length + 1].alternatives) :
            sent.word[last.before.length + 1].alternatives[k] = Stem(c)

(***************************************************************************)
(* C19: the alternative of the regex step.                                 *)
(***************************************************************************)
\* The alternatives of the first slot of the group of the latest core.
CoreAlternatives ==
  IF last.core_end > last.before.length
  THEN {sent.word[last.before.length + 1].alternatives[k] :
          k \in 1..Len(sent.word[last.before.length + 1].alternatives)}
  ELSE {}

\* The regex step was reached for the core of the latest token.
RegexTried ==
  /\ last.core # <<>>
  /\ ~last.word_is_in_dict \/ "parallel-regex" \in dict.tests

\* The lower-cased core when the core is capitalized at a capitalizable
\* position, else the core.
LowerOrCore ==
  IF /\ is_utf8_upper(last.core)
     /\ is_capitalizable(dict, last.before, last.before.length) \/ last.quote_found
  THEN downcase_utf8_str(last.core, MAX_WORD)
  ELSE Take(last.core, MAX_WORD)

\* C19 (as stated): when the core is not in the dictionary after the split
\* steps (or "parallel-regex" is on) and a regex matches the untagged word,
\* the regex step emits the word followed by the [!] tag.
C19_RegexEmitsTaggedWord ==
  (RegexTried /\ Take(last.core, MAX_WORD) \in dict.regex) =>
    (Take(last.core, MAX_WORD - 3) \o REGEX_TAG) \in CoreAlternatives

\* C19 (amended): when the core is not in the dictionary after the split
\* steps (or "parallel-regex" is on), the regex step emits an alternative if
\* and only if a regex matches: without the "parallels-regex" test the
\* untagged word is matched and the untagged word is emitted; under
\* "parallels-regex" the lower-cased word (if there is one) followed by
\* the [!] tag is matched, and that tagged string is emitted.
C19_RegexEmitsWhatItMatched ==
  RegexTried =>
    IF "parallels-regex" \in dict.tests
    THEN /\ last.regex <=> (Take(LowerOrCore, MAX_WORD - 3) \o REGEX_TAG) \in dict.regex
         /\ last.regex => (Take(LowerOrCore, MAX_WORD - 3) \o REGEX_TAG) \in CoreAlternatives
    ELSE /\ last.regex <=> Take(last.core, MAX_WORD) \in dict.regex
         /\ last.regex => Take(last.core, MAX_WORD) \in CoreAlternatives
         /\ (Take(last.core, MAX_WORD - 3) \o REGEX_TAG) \notin CoreAlternatives

\* C19 witness: the regex step has emitted the untagged word for a token
\* that is not in the dictionary, with both tests off.
C19_Witness ==
  /\ pc = "done"
  /\ dict.tests = {}
  /\ last.regex
  /\ ~last.word_is_in_dict
  /\ CoreAlternatives = {last.core}

(***************************************************************************)
(* C20: post_quote.                                                        *)
(***************************************************************************)
\* The first slots of the groups committed for the latest token: one for
\* each piece stripped from its left, one for its core, one for each piece
\* stripped from its right.
LeftGroups == last.len0..(last.before.length - 1)
CoreGroups == IF last.core_end > last.before.length THEN {last.before.length} ELSE {}
RightGroups == last.core_end..(last.len1 - 1)

\* The groups of the latest token whose post_quote is true.
PostQuoteGroups ==
  {g \in LeftGroups \cup CoreGroups \cup RightGroups : sent.post_quote[g + 1] = PQ(TRUE)}

\* The code point just before the latest token is a quote.
QuoteJustBefore == last.start > 0 /\ input[last.start] \in dict.QUOTES

\* A quote stands among the separators skipped just before the latest token.
QuoteAmongSeparators ==
  \E i \in 0..(last.start - 1) :
    /\ At(i) \in dict.QUOTES
    /\ \A k \in i..(last.start - 1) : is_space(At(k)) \/ At(k) \in dict.QUOTES

\* C20 (as stated): post_quote at the first slot of a group is true if and
\* only if the raw token that produced the group was immediately preceded
\* in the input by a discarded quote; the flag goes to the next real token
\* only, to one group, and is false for the pieces stripped from the right
\* of the token.
C20_PostQuoteOnlyNextToken ==
  (last.len1 > last.len0) =>
    /\ PostQuoteGroups # {} <=> QuoteJustBefore
    /\ Cardinality(PostQuoteGroups) <= 1
    /\ PostQuoteGroups \cap RightGroups = {}

\* C20 (amended): post_quote at the first slot of a group is true if and
\* only if a quote is among the separators (white space and quotes) skipped
\* just before the raw token that produced the group, and the group is the
\* core of that token or a piece stripped from its left; it is false for
\* the pieces stripped from its right and for the left wall.
C20_PostQuoteOfTokenAndLeftPieces ==
  (last.len1 > last.len0) =>
    /\ PostQuoteGroups = IF QuoteAmongSeparators
                         THEN LeftGroups \cup CoreGroups
                         ELSE {}
    /\ \A g \in LeftGroups \cup CoreGroups \cup RightGroups :
         sent.post_quote[g + 1] \in {PQ(TRUE), PQ(FALSE)}
    /\ dict.left_wall_defined => sent.post_quote[1] = PQ(FALSE)

\* C20 witness: after a quote and a space, a token with a piece stripped on
\* each side: the left piece and the core have post_quote, the right piece
\* has not.
C20_Witness ==
  /\ pc = "done"
  /\ QuoteAmongSeparators /\ ~QuoteJustBefore
  /\ LeftGroups # {} /\ CoreGroups # {} /\ RightGroups # {}
  /\ PostQuoteGroups = LeftGroups \cup CoreGroups

(***************************************************************************)
(* C21: the decompositions of mprefix_split.                               *)
(***************************************************************************)
\* The decompositions mprefix_split stages for the core of the latest
\* token, each the sequence of its components.
MprefixSplits ==
  UNION {{[j \in 1..r.t_count |-> r.word[j].alternatives[k]] :
            k \in 1..(IF r.t_count = 0 THEN 0 ELSE Len(r.word[1].alternatives))} :
         r \in {mprefix_split(dict, EmptySentence, Take(last.core, MAX_WORD)).sent}}

\* The MPRE entries that component j of the decomposition c is, stored
\* with the infix mark.
PrefixEntries(c, j) == {i \in 1..Len(dict.MPRE) : c[j] = dict.MPRE[i] \o dict.infix_mark}

\* The number of prefix components the decomposition c starts with.
PrefixCount(c) ==
  CHOOSE n \in 0..Len(c) :
    /\ \A j \in 1..n : PrefixEntries(c, j) # {}
    /\ n < Len(c) => PrefixEntries(c, n + 1) = {}

\* C21: within one call mprefix_split peels at most HEB_PRENUM_MAX prefix
\* subwords and no MPRE entry twice: every decomposition it emits has
\* between 1 and HEB_PRENUM_MAX prefix components, all of different MPRE
\* entries, followed by at most one stem (the slots after it hold the
\* empty-word marker).
C21_MprefixBounded ==
  \A c \in MprefixSplits :
    /\ PrefixCount(c) \in 1..HEB_PRENUM_MAX
    /\ \A j, k \in 1..PrefixCount(c) : j # k => PrefixEntries(c, j) \cap PrefixEntries(c, k) = {}
    /\ \A j \in (PrefixCount(c) + 2)..Len(c) : c[j] = EMPTY_WORD_MARK

\* C21 witness: a token that starts with six prefix subwords was split
\* into HEB_PRENUM_MAX prefixes and a stem, and committed so.
C21_Witness ==
  /\ pc = "done"
  /\ last.core_end - last.before.length = HEB_PRENUM_MAX + 1
  /\ \E c \in MprefixSplits : PrefixCount(c) = HEB_PRENUM_MAX /\ Len(c) = HEB_PRENUM_MAX + 1

(***************************************************************************)
(* C22: the staging window between raw tokens.                             *)
(***************************************************************************)
\* C22: between raw tokens the staging window is empty: whenever the
\* sentence driver has the control (before the first token, after each
\* call of separate_word with the calls it makes, after each wall),
\* t_count = 0 and t_start = length, so that nothing staged for one raw
\* token is committed with a later one.
C22_StagingEmptyBetweenTokens ==
  sent.t_count = 0 /\ sent.t_start = sent.length

\* C22 witness: a token whose group was committed by the spell expander
\* has returned to the driver, and another token is still to come.
C22_Witness ==
  /\ pc = "scan"
  /\ last.spell
  /\ last.len1 > last.len0
  /\ Len(sent.word[last.before.length + 1].alternatives) > 1

(***************************************************************************)
(* C23: the decompositions of suffix_split and the token.                  *)
(***************************************************************************)
\* The decomposition c without the empty-word markers that pad it.
Unpadded(c) == SubSeq(c, 1, Cardinality({j \in 1..Len(c) : c[j] # EMPTY_WORD_MARK}))

\* Entry i of an affix list, or nothing for i = 0.
EntryOrNone(list, i) == IF i = 0 THEN <<>> ELSE list[i]

\* The decomposition c is the token w cut into the PRE entry pi (or no
\* prefix), a stem that carries the subscript sub, and the SUF entry si (or
\* no suffix), as add_alternative stores them.
CutsToken(c, w, pi, si, sub) ==
  /\ Len(EntryOrNone(dict.PRE, pi)) + Len(EntryOrNone(dict.SUF, si)) <= Len(w)
  /\ StartsWith(w, EntryOrNone(dict.PRE, pi))
  /\ EndsWith(w, EntryOrNone(dict.SUF, si))
  /\ Unpadded(c) =
       (IF pi = 0 THEN <<>> ELSE <<format_affix(dict, "PREFIX", dict.PRE[pi])>>)
       \o <<SubSeq(w, Len(EntryOrNone(dict.PRE, pi)) + 1,
                   Len(w) - Len(EntryOrNone(dict.SUF, si))) \o sub>>
       \o (IF si = 0 THEN <<>> ELSE <<format_affix(dict, "SUFFIX", dict.SUF[si])>>)

\* C23: every decomposition emitted by suffix_split reconstructs the token
\* it was given: the prefix (if any), the stem without its subscript and
\* the suffix (if any) are, in this order, the token; a decomposition with
\* a suffix is emitted only when the token ends with that suffix.
C23_SplitsReconstructToken ==
  \A c \in SuffixSplits :
    \E pi \in 0..Len(dict.PRE), si \in 0..Len(dict.SUF),
       sub \in {<<>>} \cup {dict.STEMSUBSCR[k] : k \in 1..Len(dict.STEMSUBSCR)} :
      CutsToken(c, last.core, pi, si, sub)

\* C23 witness: suffix_split emitted a prefix, a stem and a suffix for a
\* token that does not end with the suffix, and the token was committed so.
C23_Witness ==
  /\ pc = "done"
  /\ last.core_end - last.before.length = 3
  /\ \E c \in SuffixSplits, si \in 1..Len(dict.SUF) :
       /\ Len(c) = 3
       /\ c[3] = format_affix(dict, "SUFFIX", dict.SUF[si])
       /\ ~EndsWith(last.core, dict.SUF[si])

(***************************************************************************)
(* C24: no decomposition twice in a group.                                 *)
(***************************************************************************)
\* Decomposition k of the group committed for the core of the latest token:
\* alternative k of each of its slots.
CoreDecomposition(k) ==
  [j \in 1..(last.core_end - last.before.length) |->
     sent.word[last.before.length + j].alternatives[k]]

\* C24: within the group committed for a token no decomposition occurs
\* twice; separate_word adds no alternative string twice to the first slot
\* of the group.
C24_NoDecompositionTwice ==
  (last.core_end > last.before.length /\ pc \in {"scan", "wall", "done"}) =>
    \A j, k \in 1..Len(sent.word[last.before.length + 1].alternatives) :
      j # k => CoreDecomposition(j) # CoreDecomposition(k)

\* C24 witness: a capitalized dictionary word that a regex matches was
\* committed with the same string as two alternatives of its slot.
C24_Witness ==
  /\ pc = "done"
  /\ is_utf8_upper(last.core)
  /\ last.core \in dict.words \cap dict.regex
  /\ \E j, k \in 1..Len(sent.word[last.before.length + 1].alternatives) :
       /\ j < k
       /\ sent.word[last.before.length + 1].alternatives[j] = last.core
       /\ sent.word[last.before.length + 1].alternatives[k] = last.core

\* The words for which is_capitalizable gets as far as reading its
\* post_quote entry: not the first word, and not after a colon, a period or
\* a bullet.
PostQuoteRead ==
  {i \in 0..(sent.length - 1) :
     /\ i # (IF dict.left_wall_defined THEN 1 ELSE 0)
     /\ i > 0 => /\ Slot(i - 1).alternatives[1] \notin {<<":">>, <<".">>}
                 /\ ~is_bullet_str(dict, Slot(i - 1).alternatives[1])}

\* C25. After tokenization every post_quote entry that is_capitalizable
\* reads for build_sentence_expressions lies inside the post_quote array and
\* was assigned by issue_alternatives.
C25_PostQuoteAssignedForEverySlot ==
  pc = "done" =>
    \A i \in PostQuoteRead :
      /\ i + 1 <= Len(sent.post_quote)
      /\ sent.post_quote[i + 1] # UNINIT

\* C25 witness: tokenization is over, the last group committed has more
\* than one slot (the array ends at the first slot of that group), and
\* is_capitalizable reads the entry of its last slot, past the end of the
\* post_quote array.
C25_Witness ==
  /\ pc = "done"
  /\ sent.length > Len(sent.post_quote)
  /\ (sent.length - 1) \in PostQuoteRead

(***************************************************************************)
(* C26: every token gets a slot.                                           *)
(***************************************************************************)
\* The next pass of the loop of separate_sentence hands a token to
\* separate_word.
TokenHandedOver ==
  /\ pc = "scan"
  /\ At(SkipSeparators(pos)) \notin {NUL, BadChar}
  /\ At(WordEnd(SkipSeparators(pos))) # BadChar

\* C26. Every non-empty raw token handed to separate_word results in at
\* least one committed slot: length strictly increases across the call,
\* whatever the dictionary, the affix table and the spell oracle answer.
C26_TokenCommitsSlot ==
  [][TokenHandedOver => sent'.length > sent.length]_vars

\* C26 witness: separate_word has returned from a token that the spell
\* oracle answered with a suggestion beginning with a space, and the
\* sentence is as long as it was before the call.
C26_Witness ==
  /\ pc \in {"scan", "wall"}
  /\ last.given # <<>>
  /\ last.spell
  /\ last.given \in DOMAIN dict.suggest
  /\ \E j \in 1..Len(dict.suggest[last.given]) :
       dict.suggest[last.given][j][1] = " "
  /\ sent.length = last.len0

(***************************************************************************)
(* C27: the components handed to add_alternative.                          *)
(***************************************************************************)
\* C27. Every decomposition passed to add_alternative has counts that match
\* its lists and no null string among the counted components: the
\* prefix-only pass of suffix_split passes a prefix and a stem and counts no
\* suffix, also when STEMSUBSCR is non-empty.
C27_CountsMatchComponents == ~sent.null_string

\* C27 witness: with a non-empty STEMSUBSCR, the token starts with a PRE
\* entry and its rest is a dictionary word, with and without the stem
\* subscript, so that the prefix-only pass of suffix_split has called
\* add_alternative, which was given a suffix count of one and a NULL suffix.
C27_Witness ==
  /\ pc = "ub"
  /\ dict.STEMSUBSCR # <<>>
  /\ \E j \in 1..Len(dict.PRE), k \in 1..Len(dict.STEMSUBSCR) :
       /\ StartsWith(last.core, dict.PRE[j])
       /\ SubSeq(last.core, Len(dict.PRE[j]) + 1, Len(last.core)) \in dict.words
       /\ (SubSeq(last.core, Len(dict.PRE[j]) + 1, Len(last.core))
             \o dict.STEMSUBSCR[k]) \in dict.words
  /\ sent.null_string

====
